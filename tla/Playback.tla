------------------------------ MODULE Playback ------------------------------
(***************************************************************************)
(* Requests for a stream over http, while the admin panel edits the        *)
(* documents they are answered from, and the subscribers loop creates      *)
(* catchups and content requests and counts views.                         *)
(*                                                                         *)
(* One kept-alive connection is followed through its requests: the path    *)
(* names a user, a stream and an output, but only the first request logs   *)
(* in; the user's document and the stream's are read one after the other,  *)
(* and other writers come between.                                         *)
(*                                                                         *)
(* Abstractions.                                                           *)
(*  - A url or a directory is the id of the stream that it belongs to.     *)
(*  - Whether a directory exists is free at every check.                   *)
(*  - Each array of a user is a set; an entry's settings are in            *)
(*    UserCatalog.  Users are not deleted.                                 *)
(*  - A user is his email, by which each request looks him up: giving the  *)
(*    email of one user to another is not modelled.                        *)
(*  - Creating a catchup or a content request is one step without faults   *)
(*    here, its endpoint is valid and the directory of every output can be *)
(*    made into an http_root: Catchups has the writes one by one.          *)
(*  - The devices and the limit of a login are in DeviceLogin and          *)
(*    SubscribersRegistry.                                                 *)
(***************************************************************************)
EXTENDS StreamDocuments

CONSTANTS
  Users,
  NoUser,
  Ids,        \* ids of documents, of all collections
  KindOf,     \* what the panel or the program means each of them to be
  Cids,       \* ids of outputs
  PanelDocs,  \* PanelDocs[id]: documents the panel may write
  MaxInt32,   \* bound: the last count that fits the type int32
  MaxWrites   \* bound: writes of the panel

Arrays == {"streams", "vods", "catchups"}

Kinds == {"channel", "vod", "catchup", "serial", "request"}

VARIABLES
  docs,    \* the documents of the collections, or None
  lists,   \* the ids in the arrays of each user's document
  conn,    \* the http connection and the request it handles
  writes,  \* number of writes of the panel so far
  owned,   \* history: what conn.user had at some time since the request came
  refusable, \* history: the request under way could not have been answered
             \* at some time since it came
  whole    \* history: documents written with every field their reader counts

vars == <<docs, lists, conn, writes, owned, refusable, whole>>

Playable == {id \in Ids : KindOf[id] \in {"channel", "vod", "catchup"}}

ArrayOf(id) ==
  CASE KindOf[id] = "channel" -> "streams"
    [] KindOf[id] = "vod"     -> "vods"
    [] KindOf[id] = "catchup" -> "catchups"

\* What the panel gave to some of the users before the first request.
Given == {id \in Playable : docs[id] # None}

Has(u) == UNION {lists[u][k] : k \in Arrays}

\* No search that takes place now, wherever the directories are, would answer
\* the request under way.
Refusable ==
  /\ conn.step \in {"asked", "found"}
  /\ \/ conn.sid \notin lists[conn.user][ArrayOf(conn.sid)]
     \/ docs[conn.sid] = None
     \/ \A onDisk \in BOOLEAN :
          Find(ArrayOf(conn.sid), docs[conn.sid], conn.cid, onDisk) = Fail

\* The fields that the reader of a kind counts, and those it only types.
Counted(kind) ==
  CASE kind = "channel" -> ChannelFields
    [] kind = "vod"     -> VodFields
    [] kind = "catchup" -> CatchupFields
    [] kind = "serial"  -> SerialFields
    [] kind = "request" -> RequestFields

Typed(kind) ==
  CASE kind \in {"channel", "vod", "catchup"} -> StreamExtras
    [] kind = "serial"  -> SerialExtras
    [] kind = "request" -> <<>>

\* The document has every field that the reader of its kind counts.
Whole(kind, doc) == DOMAIN Counted(kind) \subseteq DOMAIN doc.holds

\* The BSON types that the program writes or a reader asks for.
Types == {"oid", "array", "int32", "int64", "utf8", "bool", "double", "date"}

ASSUME PlaybackAssumption ==
  /\ NoUser \notin Users
  /\ None \notin Ids \cup Cids
  /\ KindOf \in [Ids -> Kinds]
  /\ MaxInt32 \in Nat /\ MaxWrites \in Nat
  /\ \A id \in Ids : \A doc \in PanelDocs[id] : DOMAIN doc.output \subseteq Nat
  /\ \A id \in Ids : \A doc \in PanelDocs[id] :
       \A i \in DOMAIN doc.output : {doc.output[i].url, doc.output[i].root} \subseteq {id, None}

\* The panel uses no other types, and gives the fields of a complete document
\* those that its reader asks for.
ASSUME PanelAssumption ==
  \A id \in Ids : \A doc \in PanelDocs[id] :
    /\ doc.views \in 0..MaxInt32
    /\ \A f \in DOMAIN doc.holds : doc.holds[f] \in Types
    /\ Whole(KindOf[id], doc) =>
         WellTyped(doc, Join(Counted(KindOf[id]), Typed(KindOf[id])))

\* A connection that was just accepted, in the place of the one closed before.
Fresh ==
  [step |-> "ready", user |-> NoUser, sid |-> None, cid |-> None, array |-> None,
   answer |-> Fail]

Init ==
  /\ docs \in {f \in [Ids -> UNION {PanelDocs[id] : id \in Ids} \cup {None}] :
                 \A id \in Ids : f[id] \in PanelDocs[id] \cup {None}}
  /\ \E earlier \in SUBSET Users :
       lists = [u \in Users |-> [k \in Arrays |->
                  IF u \in earlier THEN {id \in Given : ArrayOf(id) = k} ELSE {}]]
  /\ conn = Fresh
  /\ writes = 0
  /\ owned = {}
  /\ refusable = FALSE
  /\ whole = {id \in Ids : docs[id] # None /\ Whole(KindOf[id], docs[id])}

-----------------------------------------------------------------------------
(***************************************************************************)
(* HttpHandler::ProcessReceived.                                           *)
(***************************************************************************)

\* The user of the first request that logged in stays the connection's user.
LoginOf(u) == IF conn.user = NoUser THEN u ELSE conn.user

\* A GET or HEAD whose path is long enough, and whose login, if one is
\* needed, is accepted.
Receive(u, sid, cid) ==
  /\ conn.step = "ready"
  /\ conn' = [conn EXCEPT !.step = "asked", !.user = LoginOf(u), !.sid = sid, !.cid = cid]
  /\ owned' = Has(LoginOf(u))
  /\ UNCHANGED <<docs, lists, writes, whole>>
  /\ refusable' = Refusable'

\* A request that is refused before anything is looked up: its path is too
\* short, the login fails, or, after the login, the channel id is no number.
Refuse(user) ==
  /\ conn.step = "ready"
  /\ conn' = [conn EXCEPT !.step = "answered", !.user = user, !.sid = None,
                          !.cid = None, !.array = None, !.answer = Fail]
  /\ owned' = {}
  /\ refusable' = FALSE
  /\ UNCHANGED <<docs, lists, writes, whole>>

\* The arrays of the user's document, in the order of the search.
SearchOrder == <<"streams", "vods", "catchups">>

FindUser ==
  /\ conn.step = "asked"
  /\ \/ /\ conn.sid \notin Has(conn.user)
        /\ conn' = [conn EXCEPT !.step = "answered", !.answer = Fail]
     \/ \E i \in DOMAIN SearchOrder :
          /\ conn.sid \in lists[conn.user][SearchOrder[i]]
          /\ \A j \in 1..(i - 1) : conn.sid \notin lists[conn.user][SearchOrder[j]]
          /\ conn' = [conn EXCEPT !.step = "found", !.array = SearchOrder[i]]
  /\ UNCHANGED <<docs, lists, writes, owned, refusable, whole>>

\* The stream's document, which the panel may have deleted or replaced since.
FindStream(onDisk) ==
  /\ conn.step = "found"
  /\ conn' = [conn EXCEPT !.step = "answered",
                !.answer = IF docs[conn.sid] = None THEN Fail
                           ELSE Find(conn.array, docs[conn.sid], conn.cid, onDisk)]
  /\ UNCHANGED <<docs, lists, writes, owned, refusable, whole>>

\* The redirect, the file or the error is sent; the connection is closed
\* unless the request said Keep-Alive.
Finish(keepAlive) ==
  /\ conn.step = "answered"
  /\ conn' = IF keepAlive THEN [Fresh EXCEPT !.user = conn.user] ELSE Fresh
  /\ owned' = {}
  /\ refusable' = FALSE
  /\ UNCHANGED <<docs, lists, writes, whole>>

-----------------------------------------------------------------------------
(***************************************************************************)
(* The subscribers loop.                                                   *)
(***************************************************************************)

\* FindStream: the channel must be one of the user's streams, and readable as
\* a channel; it need not be visible.
FindsStream(u, sid) ==
  /\ sid \in lists[u]["streams"]
  /\ docs[sid] # None
  /\ docs[sid].cls # None
  /\ ~IsVod(StreamType(docs[sid].cls))
  /\ MakeChannelInfo(docs[sid])

\* generate_catchup of a program that was not recorded yet.
CreateCatchup(u, sid, id) ==
  /\ FindsStream(u, sid)
  /\ "output" \in DOMAIN docs[sid].holds
  /\ KindOf[id] = "catchup" /\ docs[id] = None
  /\ \A w \in Users : id \notin Has(w)
  /\ docs' = [docs EXCEPT ![id] = CatchupDoc(id, docs[sid])]
  /\ lists' = [lists EXCEPT ![u]["catchups"] = @ \cup {id}]
  /\ owned' = IF u = conn.user /\ conn.step \in {"asked", "found"}
              THEN owned \cup {id} ELSE owned
  /\ whole' = whole \cup {id}
  /\ UNCHANGED <<conn, writes>>
  /\ refusable' = (refusable \/ Refusable')

CreateRequestContent(id) ==
  /\ KindOf[id] = "request" /\ docs[id] = None
  /\ docs' = [docs EXCEPT ![id] = RequestDoc]
  /\ whole' = whole \cup {id}
  /\ UNCHANGED <<lists, conn, writes, owned>>
  /\ refusable' = (refusable \/ Refusable')

\* Faulty variant of Increment: the increment is an int64.
IncrementWide(doc) ==
  [doc EXCEPT !.views = @ + 1, !.holds = Join([view_count |-> "int64"], @)]

\* $inc of view_count by an int32 one: a missing field is created, and a sum
\* that does not fit an int32 is stored as an int64.
Increment(doc) ==
  LET views == IF "view_count" \in DOMAIN doc.holds THEN doc.views + 1 ELSE 1
      type  == IF views <= MaxInt32 THEN "int32" ELSE "int64"
  IN  [cls |-> doc.cls, holds |-> Join([view_count |-> type], doc.holds), views |-> views,
       output |-> doc.output]

\* SetRecent of a stream that exists counts a view of it.
CountView(sid) ==
  /\ KindOf[sid] \in {"channel", "vod", "catchup"}
  /\ docs[sid] # None /\ docs[sid].cls # None
  /\ docs[sid].views <= MaxInt32
  /\ docs' = [docs EXCEPT ![sid] = Increment(@)]
  /\ UNCHANGED <<lists, conn, writes, owned, whole>>
  /\ refusable' = (refusable \/ Refusable')

-----------------------------------------------------------------------------
(***************************************************************************)
(* The admin panel.                                                        *)
(***************************************************************************)

PanelWrites(id, doc) ==
  /\ docs[id] # doc
  /\ docs' = [docs EXCEPT ![id] = doc]
  /\ whole' = IF Whole(KindOf[id], doc) THEN whole \cup {id} ELSE whole \ {id}
  /\ UNCHANGED <<lists, owned>>

PanelDeletes(id) ==
  /\ docs[id] # None
  /\ docs' = [docs EXCEPT ![id] = None]
  /\ whole' = whole \ {id}
  /\ UNCHANGED <<lists, owned>>

PanelLists(u, id) ==
  /\ id \notin lists[u][ArrayOf(id)]
  /\ lists' = [lists EXCEPT ![u][ArrayOf(id)] = @ \cup {id}]
  /\ owned' = IF u = conn.user /\ conn.step \in {"asked", "found"}
              THEN owned \cup {id} ELSE owned
  /\ UNCHANGED <<docs, whole>>

PanelUnlists(u, id) ==
  /\ id \in lists[u][ArrayOf(id)]
  /\ lists' = [lists EXCEPT ![u][ArrayOf(id)] = @ \ {id}]
  /\ UNCHANGED <<docs, owned, whole>>

Panel ==
  /\ writes < MaxWrites
  /\ writes' = writes + 1
  /\ \/ \E id \in Ids : PanelDeletes(id) \/ \E doc \in PanelDocs[id] : PanelWrites(id, doc)
     \/ \E u \in Users, id \in Playable : PanelLists(u, id) \/ PanelUnlists(u, id)
  /\ UNCHANGED conn
  /\ refusable' = (refusable \/ Refusable')

Next ==
  \/ \E u \in Users, sid \in Playable, cid \in Cids : Receive(u, sid, cid)
  \/ \E user \in Users \cup {NoUser} :
       user \in {conn.user} \cup (IF conn.user = NoUser THEN Users ELSE {}) /\ Refuse(user)
  \/ FindUser
  \/ \E onDisk \in BOOLEAN : FindStream(onDisk)
  \/ \E keepAlive \in BOOLEAN : Finish(keepAlive)
  \/ \E u \in Users, sid, id \in Ids : CreateCatchup(u, sid, id)
  \/ \E id \in Ids : CreateRequestContent(id) \/ CountView(id)
  \/ Panel

Spec == Init /\ [][Next]_vars

-----------------------------------------------------------------------------
\* Documents and answers have their shapes: an answer names the stream whose
\* url or directory it is, and is an error otherwise.
TypeOK ==
  /\ \A id \in Ids : docs[id] # None =>
       /\ \A f \in DOMAIN docs[id].holds : docs[id].holds[f] \in Types
       /\ docs[id].views \in 0..(MaxInt32 + 1)
  /\ lists \in [Users -> [Arrays -> SUBSET Playable]]
  /\ conn \in [step : {"ready", "asked", "found", "answered"},
               user : Users \cup {NoUser}, sid : Playable \cup {None},
               cid : Cids \cup {None}, array : Arrays \cup {None},
               answer : [kind : {"url", "directory"}, of : Ids] \cup {Fail}]
  /\ writes \in 0..MaxWrites
  /\ owned \subseteq Playable /\ refusable \in BOOLEAN /\ whole \subseteq Ids

\* A request is answered with a url or a directory of the very stream it asks
\* for, and the connection's own user had that stream in his lists at some
\* time since the request came, whoever the path names and whatever the panel
\* wrote while the two documents were read.  A catchup in particular is never
\* answered with the directory of the channel it was made from.
AnswersAreRequested ==
  conn.step = "answered" /\ conn.answer # Fail =>
    conn.answer.of = conn.sid /\ conn.sid \in owned

\* A request that got as far as the search is refused only if it could not have
\* been answered at some instant while it was handled.  A stream that stays
\* listed and playable is played, although user and stream are read one after
\* the other, whatever is written between them, how many views are counted, and
\* wherever its directory is.
RefusedForCause ==
  conn.step = "answered" /\ conn.answer = Fail /\ conn.sid # None => refusable

\* A document that was written with all its fields, by the panel or by
\* CreateOrFindCatchup and CreateRequestContent, stays readable however often
\* its views are counted, until the count leaves the range of an int32.
WholeStaysReadable ==
  \A id \in whole :
    docs[id].views <= MaxInt32 => Reads(KindOf[id], docs[id])

=============================================================================
