---------------------------- MODULE UserCatalog ----------------------------
(***************************************************************************)
(* What one user's document says of the streams, vods and catchups he has: *)
(* the entries of its three arrays, the requests that set a field of an    *)
(* entry (favorite, recent, interruption time), generate_catchup and       *)
(* undo_catchup that push and pull entries, and the list that              *)
(* ClientGetChannels answers.                                              *)
(*                                                                         *)
(* An entry is a BSON document: its fields have an order, which decides    *)
(* what makeUserStreamInfo reads.  The admin panel writes entries of its   *)
(* own layout; $set keeps a field's place and appends a field that is      *)
(* missing.                                                                *)
(*                                                                         *)
(* Abstractions.                                                           *)
(*  - One user: every update has the user's _id in its query.              *)
(*  - A handler runs to its end before the loop takes the next request, so *)
(*    there is one job; the panel may write between two of its calls.      *)
(*  - A flag or a time is a member of Values, 0 being false or the epoch.  *)
(*  - Documents are well formed, and the panel puts a stream in the array  *)
(*    of its class.                                                        *)
(*  - view_count is told apart from zero only.                             *)
(***************************************************************************)
EXTENDS Naturals, Sequences, FiniteSets

CONSTANTS
  Sids,        \* ids of streams
  Classes,     \* values of _cls in the documents of streams
  Layouts,     \* orders of fields in the entries the panel writes
  Values,      \* values of a field
  MaxEntries,  \* bound: entries in the three arrays
  NoJob

Arrays == {"streams", "vods", "catchups"}

\* The order in which makeUserStreamInfo and its caller look for the fields.
ReadingOrder ==
  <<"sid", "favorite", "private", "locked", "recent", "interruption_time">>

Settings == {"favorite", "private", "locked", "recent", "interruption_time"}

Marks == {"favorite", "recent", "interruption_time"}  \* a client may set these

Fields == Settings \cup {"sid", "_cls"}

\* The fields of the entry that AddStreamToUserCatchupsArray pushes.
ProgramLayout ==
  <<"sid", "favorite", "private", "recent", "interruption_time", "_cls">>

\* What a setting handler has still to do.
Jobs == [step : {"update"}, setting : Marks, sid : Sids, value : Values]
        \cup [step : {"count"}, sid : Sids]

ASSUME UserCatalogAssumption ==
  /\ 0 \in Values
  /\ NoJob \notin Jobs
  /\ MaxEntries \in Nat
  /\ \A l \in Layouts :
       /\ l \in Seq(Fields)
       /\ \E i \in DOMAIN l : l[i] = "sid"
       /\ \A i, j \in DOMAIN l : l[i] = l[j] => i = j

VARIABLES
  class,     \* the _cls of each stream's document, which is never rewritten
  arrays,    \* the user document: a sequence of entries under each array
  stored,    \* documents of streams: "absent", "hidden" or "visible"
  job,       \* the setting handler the subscribers loop is in, or NoJob
  viewed,    \* streams whose view_count is not zero
  uncounted, \* history: stored streams one of whose increments failed
  wanted     \* history: last value stored of each mark while the id is listed

vars == <<class, arrays, stored, job, viewed, uncounted, wanted>>

-----------------------------------------------------------------------------
IsVod(st) == st \in {"vod_relay", "vod_encode", "vod_proxy"}

\* The array that the setting handlers update for the class of a stream.
ArrayOf(s) ==
  IF IsVod(class[s]) THEN "vods"
  ELSE IF class[s] = "catchup" THEN "catchups" ELSE "streams"

Holders(k, s) == {i \in DOMAIN arrays[k] : arrays[k][i].sid = s}

Holds(k, s) == Holders(k, s) # {}

\* Faulty variant of Chosen: the newest entry is updated.
ChosenLast(k, s) == CHOOSE i \in Holders(k, s) : \A j \in Holders(k, s) : j <= i

\* The element that a positional $ stands for: the first that matches.
Chosen(k, s) == CHOOSE i \in Holders(k, s) : \A j \in Holders(k, s) : i <= j

First(k, s) ==
  arrays[k][CHOOSE i \in Holders(k, s) : \A j \in Holders(k, s) : i <= j]

Has(order, f) == \E i \in DOMAIN order : order[i] = f

Before(order, f, g) ==
  \E i, j \in DOMAIN order : i < j /\ order[i] = f /\ order[j] = g

\* Faulty variant of Reads: every field is looked for from the beginning.
ReadsAnywhere(order, f) == Has(order, f)

\* Whether makeUserStreamInfo finds f: one iterator looks for one field after
\* the other, a field behind it is not found, and a search that fails leaves
\* nothing for the next ones.
Reads(order, f) ==
  \A n \in DOMAIN ReadingOrder : ReadingOrder[n] = f =>
    \A i, j \in 1..n :
      /\ Has(order, ReadingOrder[j])
      /\ i < j => Before(order, ReadingOrder[i], ReadingOrder[j])

\* makeUserStreamInfo: a field that is not found keeps its default.
UserStreamInfo(e) ==
  [f \in Settings |-> IF Reads(e.order, f) THEN e.value[f] ELSE 0]

\* ClientGetChannels skips an entry whose stream is gone, and channels (not
\* vods or catchups) that are not visible.
Listed(k, e) ==
  /\ stored[e.sid] # "absent"
  /\ k = "streams" => stored[e.sid] = "visible"

\* The n-th of a set of places, and the elements at these places in their
\* order.
Nth(I, n) == CHOOSE i \in I : Cardinality({j \in I : j <= i}) = n

Kept(q, I) == [n \in 1..Cardinality(I) |-> q[Nth(I, n)]]

\* $pull of every element with the id.
Without(q, s) == Kept(q, {i \in DOMAIN q : q[i].sid # s})

Item(e) == [sid |-> e.sid, info |-> UserStreamInfo(e)]

\* The items of one list of the answer; catchups have one list, channels and
\* vods a public and a private one.
Answer(k, priv) ==
  LET Belongs(e) ==
        Listed(k, e) /\ (k # "catchups" => UserStreamInfo(e).private = priv)
      shown == Kept(arrays[k], {i \in DOMAIN arrays[k] : Belongs(arrays[k][i])})
  IN  [i \in DOMAIN shown |-> Item(shown[i])]

\* Faulty variant of SetField: the path lacks the name of the field, so that
\* the entry is replaced by the new field.
SetWhole(e, f, v) ==
  [e EXCEPT !.order = <<"sid", f>>,
            !.value = [g \in Settings |-> IF g = f THEN v ELSE 0]]

\* Faulty variant of SetField: the field is added, not replaced.
AddField(e, f, v) ==
  [e EXCEPT !.order = Append(@, f), !.value[f] = v]

\* $set of one field of an entry.
SetField(e, f, v) ==
  [e EXCEPT !.order = IF Has(@, f) THEN @ ELSE Append(@, f),
            !.value[f] = v]

Entry(s, order, by) ==
  [sid |-> s, order |-> order, value |-> [f \in Settings |-> 0], by |-> by]

Entries == Len(arrays["streams"]) + Len(arrays["vods"]) + Len(arrays["catchups"])

Unset == [f \in Marks |-> 0]

Init ==
  /\ class \in [Sids -> Classes]
  /\ arrays = [k \in Arrays |-> <<>>]
  /\ stored \in [Sids -> {"hidden", "visible"}]
  /\ job = NoJob
  /\ viewed = {}
  /\ uncounted = {}
  /\ wanted = [s \in Sids |-> Unset]

-----------------------------------------------------------------------------
(***************************************************************************)
(* set_favorite, set_recent and interrupt_stream_time.                     *)
(***************************************************************************)

\* The stream's document is found; without it the handler changes nothing.
Request(f, s, v) ==
  /\ job = NoJob
  /\ stored[s] # "absent"
  /\ job' = [step |-> "update", setting |-> f, sid |-> s, value |-> v]
  /\ UNCHANGED <<class, arrays, stored, viewed, uncounted, wanted>>

\* SetRecent goes on to count a view, whatever became of the update; an error
\* is only logged and the client is told of a success.
AfterUpdate(j) ==
  IF j.setting = "recent" THEN [step |-> "count", sid |-> j.sid] ELSE NoJob

\* The update reached the database (its error, if any, came after).
UpdateStored ==
  /\ job # NoJob /\ job.step = "update"
  /\ LET s == job.sid
         k == ArrayOf(s)
     IN  IF Holds(k, s)
         THEN /\ arrays' = [arrays EXCEPT ![k][Chosen(k, s)] =
                              SetField(@, job.setting, job.value)]
              /\ wanted' = [wanted EXCEPT ![s][job.setting] = job.value]
         ELSE UNCHANGED <<arrays, wanted>>
  /\ job' = AfterUpdate(job)
  /\ UNCHANGED <<class, stored, viewed, uncounted>>

UpdateLost ==
  /\ job # NoJob /\ job.step = "update"
  /\ job' = AfterUpdate(job)
  /\ UNCHANGED <<class, arrays, stored, viewed, uncounted, wanted>>

\* Faulty variant of CountView: vods and catchups are not counted.
CountChannelView ==
  /\ job # NoJob /\ job.step = "count"
  /\ viewed' = IF stored[job.sid] # "absent" /\ ArrayOf(job.sid) = "streams"
               THEN viewed \cup {job.sid} ELSE viewed
  /\ job' = NoJob
  /\ UNCHANGED <<class, arrays, stored, uncounted, wanted>>

\* $inc of view_count in the stream's document, if it is still there.
CountView ==
  /\ job # NoJob /\ job.step = "count"
  /\ viewed' = IF stored[job.sid] # "absent" THEN viewed \cup {job.sid} ELSE viewed
  /\ job' = NoJob
  /\ UNCHANGED <<class, arrays, stored, uncounted, wanted>>

CountLost ==
  /\ job # NoJob /\ job.step = "count"
  /\ uncounted' = IF stored[job.sid] # "absent" THEN uncounted \cup {job.sid} ELSE uncounted
  /\ job' = NoJob
  /\ UNCHANGED <<class, arrays, stored, viewed, wanted>>

-----------------------------------------------------------------------------
(***************************************************************************)
(* The end of generate_catchup and undo_catchup.                           *)
(***************************************************************************)

\* $push of an entry, also when the array holds the catchup already: two
\* generate_catchup of one program are answered with the same stream.
AddUserCatchup(s) ==
  /\ job = NoJob
  /\ class[s] = "catchup" /\ stored[s] # "absent"
  /\ Entries < MaxEntries
  /\ arrays' = [arrays EXCEPT !["catchups"] = Append(@, Entry(s, ProgramLayout, "program"))]
  /\ UNCHANGED <<class, stored, job, viewed, uncounted, wanted>>

\* $pull of every entry with the id the client sent.
RemoveUserCatchup(s) ==
  /\ job = NoJob
  /\ arrays' = [arrays EXCEPT !["catchups"] = Without(@, s)]
  /\ wanted' = IF class[s] = "catchup" THEN [wanted EXCEPT ![s] = Unset] ELSE wanted
  /\ UNCHANGED <<class, stored, job, viewed, uncounted>>

-----------------------------------------------------------------------------
(***************************************************************************)
(* The admin panel, which writes the same database.                        *)
(***************************************************************************)

PanelLists(s, order) ==
  /\ ~Holds(ArrayOf(s), s)
  /\ Entries < MaxEntries
  /\ arrays' = [arrays EXCEPT ![ArrayOf(s)] = Append(@, Entry(s, order, "panel"))]
  /\ UNCHANGED <<class, stored, job, viewed, uncounted, wanted>>

PanelDrops(s) ==
  /\ Holds(ArrayOf(s), s)
  /\ arrays' = [arrays EXCEPT ![ArrayOf(s)] = Without(@, s)]
  /\ wanted' = [wanted EXCEPT ![s] = Unset]
  /\ UNCHANGED <<class, stored, job, viewed, uncounted>>

PanelSets(f, k, i, v) ==
  /\ arrays[k][i].value[f] # v \/ ~Has(arrays[k][i].order, f)
  /\ LET e == arrays[k][i]
         edited == [e EXCEPT !.order = IF Has(@, f) THEN @ ELSE Append(@, f),
                             !.value[f] = v]
     IN  arrays' = [arrays EXCEPT ![k][i] = edited]
  /\ UNCHANGED <<class, stored, job, viewed, uncounted, wanted>>

PanelDeletesStream(s) ==
  /\ stored[s] # "absent"
  /\ stored' = [stored EXCEPT ![s] = "absent"]
  /\ viewed' = viewed \ {s}
  /\ uncounted' = uncounted \ {s}
  /\ UNCHANGED <<class, arrays, job, wanted>>

Panel ==
  \/ \E s \in Sids, order \in Layouts : PanelLists(s, order)
  \/ \E s \in Sids : PanelDrops(s) \/ PanelDeletesStream(s)
  \/ \E f \in {"private", "locked"}, k \in Arrays, v \in Values :
       \E i \in DOMAIN arrays[k] : PanelSets(f, k, i, v)

Next ==
  \/ \E f \in Marks, s \in Sids, v \in Values : Request(f, s, v)
  \/ UpdateStored \/ UpdateLost
  \/ CountView \/ CountLost
  \/ \E s \in Sids : AddUserCatchup(s) \/ RemoveUserCatchup(s)
  \/ Panel

Spec == Init /\ [][Next]_vars

-----------------------------------------------------------------------------
EntryType ==
  [sid : Sids, order : Seq(Fields), value : [Settings -> Values],
   by : {"program", "panel"}]

\* Every array is a sequence of entries, none of which has a field twice, and
\* a job names a stream and a setting (the documents the handlers write).
TypeOK ==
  /\ class \in [Sids -> Classes]
  /\ \A k \in Arrays : arrays[k] \in Seq(EntryType)
  /\ \A k \in Arrays : \A i \in DOMAIN arrays[k] :
       LET order == arrays[k][i].order
       IN  Has(order, "sid") /\ \A m, n \in DOMAIN order : order[m] = order[n] => m = n
  /\ stored \in [Sids -> {"absent", "hidden", "visible"}]
  /\ job \in Jobs \cup {NoJob}
  /\ viewed \subseteq Sids /\ uncounted \subseteq Sids
  /\ wanted \in [Sids -> [Marks -> Values]]

Shows(e, f) == Reads(e.order, f)

\* When a user lists a stream in an entry that can be read to its end, the
\* first item of the answer with its id has the values that set_favorite,
\* set_recent and interrupt_stream_time stored last, however often the catchup
\* was generated again and whatever the panel wrote to the entry in between.
LastStoredShown ==
  \A s \in Sids :
    LET k == ArrayOf(s)
        e == First(k, s)
        list == Answer(k, UserStreamInfo(e).private)
    IN  Holds(k, s) /\ Listed(k, e) /\ Shows(e, "interruption_time") =>
          \E i \in DOMAIN list :
            /\ list[i].sid = s
            /\ \A j \in 1..(i - 1) : list[j].sid # s
            /\ \A f \in Marks : list[i].info[f] = wanted[s][f]

\* A catchup that the program listed is always answered with neither a recent
\* time nor an interruption time, whatever set_recent and
\* interrupt_stream_time stored: its entry has no "locked" where
\* makeUserStreamInfo looks for it, and one that is set later comes too late.
CatchupPositionsForgotten ==
  \A i \in DOMAIN arrays["catchups"] :
    LET e == arrays["catchups"][i]
    IN  e.by = "program" =>
          UserStreamInfo(e).recent = 0 /\ UserStreamInfo(e).interruption_time = 0

\* A request of a client changes nothing in the answer but the one setting it
\* names, of the one stream: it moves no item between the private and the
\* public list, and uncovers no field that could not be read before.
RequestSetsOneField ==
  [][\A k \in Arrays : UpdateStored =>
       /\ DOMAIN arrays'[k] = DOMAIN arrays[k]
       /\ \A i \in DOMAIN arrays[k], f \in Settings :
            f # job.setting \/ arrays[k][i].sid # job.sid =>
              UserStreamInfo(arrays'[k][i])[f] = UserStreamInfo(arrays[k][i])[f]]_vars

\* A recent time in the user's document has a view counted in the stream's
\* document, unless the increment failed or is still to come: SetRecent writes
\* the two one after the other.
RecentIsCounted ==
  \A s \in Sids :
    wanted[s]["recent"] # 0 /\ Holds(ArrayOf(s), s) /\ stored[s] # "absent" =>
      \/ s \in viewed \cup uncounted
      \/ job # NoJob /\ job.sid = s /\ job.step = "count"

=============================================================================
