-------------------------- MODULE StreamDocuments --------------------------
(***************************************************************************)
(* How the program reads the documents that it shares with the admin       *)
(* panel: which of them become an item of a list (mongo2info.cpp), and     *)
(* which url or directory a request for one is answered with.              *)
(*                                                                         *)
(* A document is a record.  "holds" gives the BSON type of every field     *)
(* that is present, "views" the number under view_count and "output" the   *)
(* elements of its output array by their places in it, of which an element *)
(* may lack its id, uri or http_root.  No field is there twice.            *)
(*                                                                         *)
(* A reader goes through the fields of a document, gives up at the first   *)
(* of a wrong type, counts those it knows, and compares the count with a   *)
(* constant.                                                               *)
(***************************************************************************)
EXTENDS Naturals, FiniteSets

CONSTANT None  \* a field or an element that is not there

-----------------------------------------------------------------------------
(***************************************************************************)
(* The fields each reader counts, with the types it asks for.              *)
(***************************************************************************)

Common ==
  [_id |-> "oid", groups |-> "array", iarc |-> "int32", view_count |-> "int32",
   name |-> "utf8", output |-> "array", have_audio |-> "bool", have_video |-> "bool",
   tvg_logo |-> "utf8"]

Join(f, g) ==
  [x \in DOMAIN f \cup DOMAIN g |-> IF x \in DOMAIN f THEN f[x] ELSE g[x]]

VodFields ==
  Join(Common,
       [description |-> "utf8", trailer_url |-> "utf8", user_score |-> "double",
        prime_date |-> "date", country |-> "utf8", duration |-> "int32",
        vod_type |-> "int32"])

CatchupFields ==
  Join(Common, [tvg_id |-> "utf8", start |-> "date", stop |-> "date"])

ChannelFields == Join(Common, [tvg_id |-> "utf8"])

SerialFields ==
  [_id |-> "oid", groups |-> "array", season |-> "int32", name |-> "utf8",
   icon |-> "utf8", description |-> "utf8"]

RequestFields ==
  [_id |-> "oid", title |-> "utf8", type |-> "int32", status |-> "int32"]

\* Fields that are read, and must have their types, but are not counted.
StreamExtras == [parts |-> "array", meta |-> "array", visible |-> "bool"]
SerialExtras == [episodes |-> "array", visible |-> "bool"]

\* No field the reader knows has another type than it asks for.
WellTyped(doc, known) ==
  \A f \in DOMAIN doc.holds \cap DOMAIN known : doc.holds[f] = known[f]

Lacks(doc, counted) == Cardinality(DOMAIN counted \ DOMAIN doc.holds)

\* MongoStreamType2StreamType: a class nobody knows is a proxy.
StreamType(cls) ==
  IF cls \in {"vod_proxy", "relay", "encode", "vod_relay", "vod_encode",
              "timeshift_recorder", "timeshift_player", "catchup", "cod_relay",
              "cod_encode", "test_life", "cv_data"}
  THEN cls ELSE "proxy"

IsVod(st) == st \in {"vod_relay", "vod_encode", "vod_proxy"}

\* The readers.  A proxy may lack two of the counted fields, no matter which,
\* but not one.
MakeVodInfo(doc) ==
  /\ WellTyped(doc, Join(VodFields, StreamExtras))
  /\ \/ Lacks(doc, VodFields) = 0
     \/ StreamType(doc.cls) = "vod_proxy" /\ Lacks(doc, VodFields) = 2

MakeCatchupInfo(doc) ==
  /\ WellTyped(doc, Join(CatchupFields, StreamExtras))
  /\ Lacks(doc, CatchupFields) = 0

MakeChannelInfo(doc) ==
  /\ WellTyped(doc, Join(ChannelFields, StreamExtras))
  /\ \/ Lacks(doc, ChannelFields) = 0
     \/ StreamType(doc.cls) = "proxy" /\ Lacks(doc, ChannelFields) = 2

MakeSerialInfo(doc) ==
  /\ WellTyped(doc, Join(SerialFields, SerialExtras))
  /\ Lacks(doc, SerialFields) = 0

MakeContentRequestInfo(doc) ==
  WellTyped(doc, RequestFields) /\ Lacks(doc, RequestFields) = 0

\* Whether the document is read as an item of a list of this kind.
Reads(kind, doc) ==
  CASE kind = "channel" -> MakeChannelInfo(doc)
    [] kind = "vod"     -> MakeVodInfo(doc)
    [] kind = "catchup" -> MakeCatchupInfo(doc)
    [] kind = "serial"  -> MakeSerialInfo(doc)
    [] kind = "request" -> MakeContentRequestInfo(doc)

-----------------------------------------------------------------------------
(***************************************************************************)
(* Outputs.                                                                *)
(***************************************************************************)

\* Faulty variant of Usable: an element without a uri is kept.
UsableAny(e) == e.id # None

\* GetOutputUrlData: elements without an id or a uri are passed over.
Usable(e) == e.id # None /\ e.url # None

OutputUrlData(doc) ==
  IF "output" \in DOMAIN doc.holds
  THEN [i \in {i \in DOMAIN doc.output : Usable(doc.output[i])} |-> doc.output[i]]
  ELSE <<>>

\* The places of the outputs with an id.
Places(doc, cid) ==
  LET urls == OutputUrlData(doc) IN {i \in DOMAIN urls : urls[i].id = cid}

\* The first of them.
Output(doc, cid) ==
  doc.output[CHOOSE i \in Places(doc, cid) : \A j \in Places(doc, cid) : i <= j]

Fail == [kind |-> "error", of |-> None]

\* GetUrlFromStream: the first output with the id decides.
Url(doc, cid) ==
  IF Places(doc, cid) = {} THEN Fail ELSE [kind |-> "url", of |-> Output(doc, cid).url]

\* GetHttpRootFromStream: that output, if it has an http_root.
HttpRoot(doc, cid) ==
  IF Places(doc, cid) = {} \/ Output(doc, cid).root = None THEN Fail
  ELSE [kind |-> "directory", of |-> Output(doc, cid).root]

\* The directory if the stream has one and it exists (onDisk), else the url.
RootOrUrl(doc, cid, onDisk) ==
  IF HttpRoot(doc, cid) # Fail /\ onDisk THEN HttpRoot(doc, cid) ELSE Url(doc, cid)

(***************************************************************************)
(* ClientFindHttpDirectoryOrUrlForChannel, once the stream was found in an *)
(* array of the user.                                                      *)
(***************************************************************************)

FindInStreams(doc, cid, onDisk) ==
  IF StreamType(doc.cls) = "proxy" THEN Url(doc, cid)
  ELSE IF HttpRoot(doc, cid) = Fail THEN Fail ELSE RootOrUrl(doc, cid, onDisk)

FindInVods(doc, cid, onDisk) ==
  IF StreamType(doc.cls) = "vod_proxy" THEN Url(doc, cid)
  ELSE IF HttpRoot(doc, cid) = Fail THEN Fail ELSE RootOrUrl(doc, cid, onDisk)

OnDemand == {"cod_relay", "cod_encode", "vod_relay", "vod_encode"}

\* Faulty variant of FindInCatchups: no url when the directory is missing.
FindInCatchupsOnDisk(doc, cid, onDisk) ==
  IF onDisk THEN HttpRoot(doc, cid) ELSE Fail

\* A catchup needs no http_root to be answered with its url.
FindInCatchups(doc, cid, onDisk) ==
  IF StreamType(doc.cls) \in {"proxy", "vod_proxy"} \cup OnDemand
  THEN Url(doc, cid) ELSE RootOrUrl(doc, cid, onDisk)

Find(k, doc, cid, onDisk) ==
  CASE doc.cls = None -> Fail
    [] doc.cls # None /\ k = "streams"  -> FindInStreams(doc, cid, onDisk)
    [] doc.cls # None /\ k = "vods"     -> FindInVods(doc, cid, onDisk)
    [] doc.cls # None /\ k = "catchups" -> FindInCatchups(doc, cid, onDisk)

-----------------------------------------------------------------------------
(***************************************************************************)
(* Documents the program writes.                                           *)
(***************************************************************************)

\* Faulty variant of CatchupOutput: the outputs of the channel, unpatched.
CatchupOutputUnpatched(id, outputs) == outputs

\* CreateCatchupOutputUrl: every output gets a url and a root of the catchup.
CatchupOutput(id, outputs) ==
  [i \in DOMAIN outputs |-> [id |-> outputs[i].id, url |-> id, root |-> id]]

\* CreateOrFindCatchup, from the document of a channel.
CatchupDoc(id, channel) ==
  [cls |-> "catchup",
   holds |-> Join(CatchupFields, [parts |-> "array", visible |-> "bool", input |-> "array"]),
   views |-> 0, output |-> CatchupOutput(id, OutputUrlData(channel))]

\* CreateRequestContent.
RequestDoc ==
  [cls |-> "request", holds |-> RequestFields, views |-> 0, output |-> <<>>]

=============================================================================
