--------------------------- MODULE CatchupLibrary ---------------------------
(***************************************************************************)
(* What generate_catchup, undo_catchup and content requests promise,       *)
(* without jobs, writes and faults: a program of a channel is recorded     *)
(* once and for good, a user has only recordings of channels he is         *)
(* subscribed to, a content request is of one user, and the panels hear of *)
(* an id at most once, when a user has it.                                 *)
(*                                                                         *)
(* News that was not heard yet may be lost, all at a time.                 *)
(***************************************************************************)
CONSTANTS
  Users,
  Channels,
  Programs,
  Subscribed,  \* <<u, ch>>: u may have recordings of ch
  Ids

VARIABLES
  recorded,  \* the catchup of each program of each channel, if there is one
  library,   \* the catchups of each user
  asked,     \* the content requests of each user
  news,      \* ids that the panels have still to hear of
  heard      \* ids that they have heard of

libraryVars == <<recorded, library, asked, news, heard>>

Init ==
  /\ recorded = [ch \in Channels |-> [pr \in Programs |-> {}]]
  /\ library = [u \in Users |-> {}]
  /\ asked = [u \in Users |-> {}]
  /\ news = {}
  /\ heard = {}

\* Nobody has the id.
New(id) ==
  /\ \A ch \in Channels, pr \in Programs : id \notin recorded[ch][pr]
  /\ \A u \in Users : id \notin asked[u]

Record(ch, pr, id) ==
  /\ recorded[ch][pr] = {}
  /\ New(id)
  /\ recorded' = [recorded EXCEPT ![ch][pr] = {id}]
  /\ UNCHANGED <<library, asked, news, heard>>

Give(u, id) ==
  /\ \E ch \in Channels, pr \in Programs :
       <<u, ch>> \in Subscribed /\ id \in recorded[ch][pr]
  /\ library' = [library EXCEPT ![u] = @ \cup {id}]
  /\ UNCHANGED <<recorded, asked, news, heard>>

Return(u, id) ==
  /\ library' = [library EXCEPT ![u] = @ \ {id}]
  /\ UNCHANGED <<recorded, asked, news, heard>>

Ask(u, id) ==
  /\ New(id)
  /\ asked' = [asked EXCEPT ![u] = @ \cup {id}]
  /\ UNCHANGED <<recorded, library, news, heard>>

Announce(id) ==
  /\ \E u \in Users : id \in library[u] \cup asked[u]
  /\ id \notin news \cup heard
  /\ news' = news \cup {id}
  /\ UNCHANGED <<recorded, library, asked, heard>>

Hear(id) ==
  /\ id \in news
  /\ news' = news \ {id}
  /\ heard' = heard \cup {id}
  /\ UNCHANGED <<recorded, library, asked>>

LoseNews ==
  /\ news' = {}
  /\ UNCHANGED <<recorded, library, asked, heard>>

Next ==
  \/ \E ch \in Channels, pr \in Programs, id \in Ids : Record(ch, pr, id)
  \/ \E u \in Users, id \in Ids : Give(u, id) \/ Return(u, id) \/ Ask(u, id)
  \/ \E id \in Ids : Announce(id) \/ Hear(id)
  \/ LoseNews

Spec == Init /\ [][Next]_libraryVars
=============================================================================
