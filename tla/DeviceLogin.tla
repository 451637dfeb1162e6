---------------------------- MODULE DeviceLogin ----------------------------
(***************************************************************************)
(* The decision of ClientLogin and the activation of a device at its first *)
(* login (SubscribersManager), by the subscribers loop and the http loop   *)
(* for one user, while the admin panel edits the user's document.          *)
(*                                                                         *)
(* A login reads the document once, decides by what it read, by the clock  *)
(* and by the connections that are registered, writes the device's status  *)
(* and is registered.  The panel may write between any two of these.       *)
(*                                                                         *)
(* Abstractions.                                                           *)
(*  - A document without a field that ClientActivate and ClientLogin both  *)
(*    look for has the same effect as no document: an error before         *)
(*    anything is written.  Both searches, by email and by id, then come   *)
(*    down to one snapshot, of a login that finds its user.  exp_date is   *)
(*    looked for by ClientLogin only and may be missing here (NoDate).     *)
(*  - The clock is read in the step that takes connections_mutex_.         *)
(*  - A connection logs in once; a second login is in SubscribersRegistry. *)
(***************************************************************************)
EXTENDS Naturals

CONSTANTS
  Loops,      \* threads that handle logins
  SubscribersLoop,  \* the one that handles activations too
  Devices,
  Passwords,  \* hashes
  Emails,
  NoDate,     \* exp_date of a document that has none
  MaxTime,    \* bound: the last instant of the clock
  MaxWrites   \* bound: writes of the panel

ASSUME MaxTimeAssumption == MaxTime \in Nat
ASSUME MaxWritesAssumption == MaxWrites \in Nat
ASSUME NoDateAssumption == NoDate \notin Nat
ASSUME SubscribersLoopAssumption == SubscribersLoop \in Loops

VARIABLES
  account,   \* the user's document
  now,       \* current_utc_mstime()
  at,        \* where the login of a loop stands
  want,      \* the device it is for
  pass,      \* the password it brought
  doc,       \* the document it read
  held,      \* the devices registered by connections of a loop
  writes,    \* how often the panel wrote
  admitted,  \* history: loops whose login the database admitted at some
             \* instant since its search
  barred,    \* history: devices that the panel banned last and that no login
             \* under way at the ban has activated since
  early,     \* history: pairs of a loop and a device whose login was under
             \* way, or whose connection was held, when the ban was stored
  offered,   \* history: pairs of a device and a password for which an
             \* activation listed it, the panel having changed nothing since
  promised,  \* history: loops whose login is for such a pair
  sure       \* history: pairs of a loop and a device whose login or session
             \* had no failed write and no interference of the panel

vars == <<account, now, at, want, pass, doc, held, writes, admitted, barred, early,
          offered, promised, sure>>
loginVars == <<at, want, pass, doc>>
offers == <<offered, promised>>
bans == <<barred, early>>

Accounts ==
  [email: Emails, status: {"not_active", "active", "deleted"}, password: Passwords,
   expires: 0 .. MaxTime \cup {NoDate},
   device: [Devices -> {"absent", "not_active", "active", "banned"}]]

Held(d) == \E l \in Loops : d \in held[l]

Uses(l, d) == d \in held[l] \/ (at[l] # "idle" /\ want[l] = d)

\* The checks that ClientLoginImpl and ClientActivate have in common.
Known(a, p) == a.status = "active" /\ a.password = p

\* ClientLogin refuses a document without a date.
Expired(a, t) == a.expires = NoDate \/ t > a.expires

\* Faulty variant of Admits: a ban is no obstacle.
AdmitsBanned(a, d, p, t) ==
  /\ Known(a, p)
  /\ ~Expired(a, t)
  /\ a.device[d] # "absent"

\* Faulty variant of Admits: a device logs in by its activation only.
AdmitsFirst(a, d, p, t) ==
  /\ Known(a, p)
  /\ ~Expired(a, t)
  /\ a.device[d] = "not_active"

\* ClientLogin and ClientLoginImpl up to the device limit.
Admits(a, d, p, t) ==
  /\ Known(a, p)
  /\ ~Expired(a, t)
  /\ a.device[d] \in {"not_active", "active"}

\* ClientActivate: the devices it lists; with none it answers an error.
Offered(a, p) ==
  IF Known(a, p) THEN {d \in Devices : a.device[d] = "not_active"} ELSE {}

Init ==
  /\ account \in [email: Emails, status: {"active"}, password: Passwords,
                  expires: {MaxTime, NoDate},
                  device: [Devices -> {"not_active", "active", "banned"}]]
  /\ now = 0
  /\ at = [l \in Loops |-> "idle"]
  /\ want \in [Loops -> Devices]
  /\ pass \in [Loops -> Passwords]
  /\ doc = [l \in Loops |-> account]
  /\ held = [l \in Loops |-> {}]
  /\ writes = 0
  /\ admitted = {}
  /\ barred = {}
  /\ early = {}
  /\ offered = {}
  /\ promised = {}
  /\ sure = {}

-----------------------------------------------------------------------------
\* ClientActivate, between two other handlers of its loop: the devices are
\* listed to one who gave the password p.
Offer(p) ==
  /\ at[SubscribersLoop] = "idle"
  /\ Offered(account, p) # {}
  /\ offered' = offered \cup (Offered(account, p) \X {p})
  /\ UNCHANGED <<account, now, loginVars, held, writes, admitted, bans, promised, sure>>

\* A login is received and the user's document read.
Find(l, d, p) ==
  /\ at[l] = "idle"
  /\ at' = [at EXCEPT ![l] = "found"]
  /\ want' = [want EXCEPT ![l] = d]
  /\ pass' = [pass EXCEPT ![l] = p]
  /\ doc' = [doc EXCEPT ![l] = account]
  /\ admitted' = IF Admits(account, d, p, now) THEN admitted \cup {l} ELSE admitted \ {l}
  /\ promised' = IF <<d, p>> \in offered THEN promised \cup {l} ELSE promised \ {l}
  /\ early' = IF d \in held[l] THEN early ELSE early \ {<<l, d>>}
  /\ sure' = IF d \in held[l] THEN sure ELSE sure \cup {<<l, d>>}
  /\ UNCHANGED <<account, now, held, writes, barred, offered>>

\* Faulty variant of Check: the device's status is read again.
CheckAgain(l) ==
  /\ at[l] = "found"
  /\ at' = [at EXCEPT ![l] =
       IF \/ ~Admits([doc[l] EXCEPT !.device = account.device], want[l], pass[l], now)
          \/ Held(want[l]) THEN "idle"
       ELSE IF account.device[want[l]] = "not_active" THEN "activating"
       ELSE "admitted"]
  /\ promised' = promised \ {l}
  /\ UNCHANGED <<account, now, want, pass, doc, held, writes, admitted, bans, offered, sure>>

\* Faulty variant of Check: a device is not activated.
CheckWithoutActivation(l) ==
  /\ at[l] = "found"
  /\ at' = [at EXCEPT ![l] =
       IF ~Admits(doc[l], want[l], pass[l], now) \/ Held(want[l]) THEN "idle" ELSE "admitted"]
  /\ promised' = promised \ {l}
  /\ UNCHANGED <<account, now, want, pass, doc, held, writes, admitted, bans, offered, sure>>

\* Faulty variant of Check: every device is activated.
CheckActivatingAll(l) ==
  /\ at[l] = "found"
  /\ at' = [at EXCEPT ![l] =
       IF ~Admits(doc[l], want[l], pass[l], now) \/ Held(want[l]) THEN "idle" ELSE "activating"]
  /\ promised' = promised \ {l}
  /\ UNCHANGED <<account, now, want, pass, doc, held, writes, admitted, bans, offered, sure>>

\* The decision, and the limit check under connections_mutex_.
Check(l) ==
  /\ at[l] = "found"
  /\ at' = [at EXCEPT ![l] =
       IF ~Admits(doc[l], want[l], pass[l], now) \/ Held(want[l]) THEN "idle"
       ELSE IF doc[l].device[want[l]] = "not_active" THEN "activating"
       ELSE "admitted"]
  /\ promised' = promised \ {l}
  /\ UNCHANGED <<account, now, want, pass, doc, held, writes, admitted, bans, offered, sure>>

\* The update selects the user by the email that was read and the element of
\* devices by its id, whatever its status is now.  Its error is only logged.
ActivateDevice(l) ==
  /\ at[l] = "activating"
  /\ at' = [at EXCEPT ![l] = "admitted"]
  /\ \E applied \in BOOLEAN :
       /\ account' = IF /\ applied
                        /\ account.email = doc[l].email
                        /\ account.device[want[l]] # "absent"
                     THEN [account EXCEPT !.device[want[l]] = "active"] ELSE account
       /\ barred' = IF applied /\ <<l, want[l]>> \in early THEN barred \ {want[l]} ELSE barred
       /\ sure' = IF applied THEN sure ELSE sure \ {<<l, want[l]>>}
  /\ UNCHANGED <<now, want, pass, doc, held, writes, admitted, early, offers>>

\* RegisterInnerConnectionByHost.
Register(l) ==
  /\ at[l] = "admitted"
  /\ at' = [at EXCEPT ![l] = "idle"]
  /\ held' = [held EXCEPT ![l] = @ \cup {want[l]}]
  /\ UNCHANGED <<account, now, want, pass, doc, writes, admitted, bans, offers, sure>>

\* The answer cannot be written; the connection is closed unregistered.
ReplyFailed(l) ==
  /\ at[l] = "admitted"
  /\ at' = [at EXCEPT ![l] = "idle"]
  /\ UNCHANGED <<account, now, want, pass, doc, held, writes, admitted, bans, offers, sure>>

\* A connection of the loop ends, between two handlers.
Close(l, d) ==
  /\ at[l] = "idle"
  /\ d \in held[l]
  /\ held' = [held EXCEPT ![l] = @ \ {d}]
  /\ early' = early \ {<<l, d>>}
  /\ UNCHANGED <<account, now, loginVars, writes, admitted, barred, offers, sure>>

-----------------------------------------------------------------------------
\* Loops whose login the document a admits at t.
AdmittedBy(a, t) == {l \in Loops : at[l] # "idle" /\ Admits(a, want[l], pass[l], t)}

PanelWrites(a) ==
  /\ writes < MaxWrites
  /\ writes' = writes + 1
  /\ account' = a
  /\ admitted' = admitted \cup AdmittedBy(a, now)
  /\ UNCHANGED <<now, loginVars, held>>

\* The panel bans, resets, activates, removes or adds a device.
PanelSetsDevice(d, s) ==
  /\ PanelWrites([account EXCEPT !.device[d] = s])
  /\ barred' = IF s = "banned" THEN barred \cup {d} ELSE barred \ {d}
  /\ early' = {e \in early : e[2] # d}
              \cup (IF s = "banned" THEN {l \in Loops : Uses(l, d)} \X {d} ELSE {})
  /\ offered' = {o \in offered : o[1] # d}
  /\ sure' = {e \in sure : e[2] # d}
  /\ UNCHANGED promised

PanelSetsUser ==
  /\ \/ /\ \/ \E s \in {"not_active", "active", "deleted"} :
                PanelWrites([account EXCEPT !.status = s])
           \/ \E p \in Passwords : PanelWrites([account EXCEPT !.password = p])
        /\ offered' = {}
     \/ /\ \E t \in 0 .. MaxTime \cup {NoDate} : PanelWrites([account EXCEPT !.expires = t])
        /\ UNCHANGED offered
  /\ UNCHANGED <<bans, promised, sure>>

\* A login under way would write to a user that is no longer found.
PanelSetsEmail(e) ==
  /\ PanelWrites([account EXCEPT !.email = e])
  /\ sure' = {s \in sure : at[s[1]] = "idle"}
  /\ UNCHANGED <<bans, offers>>

Tick ==
  /\ now < MaxTime
  /\ now' = now + 1
  /\ admitted' = admitted \cup AdmittedBy(account, now')
  /\ UNCHANGED <<account, loginVars, held, writes, bans, offers, sure>>

LoopStep(l) ==
  \/ \E d \in Devices, p \in Passwords : Find(l, d, p)
  \/ Check(l)
  \/ ActivateDevice(l)
  \/ Register(l)
  \/ ReplyFailed(l)
  \/ \E d \in Devices : Close(l, d)

PanelStep ==
  \/ \E d \in Devices, s \in {"absent", "not_active", "active", "banned"} :
       PanelSetsDevice(d, s)
  \/ PanelSetsUser
  \/ \E e \in Emails : PanelSetsEmail(e)

Next ==
  \/ \E p \in Passwords : Offer(p)
  \/ \E l \in Loops : LoopStep(l)
  \/ PanelStep
  \/ Tick

Spec == Init /\ [][Next]_vars

-----------------------------------------------------------------------------
(***************************************************************************)
(* Properties.                                                             *)
(***************************************************************************)

\* Types, and what the document a login read has to say for its device.
TypeOK ==
  /\ account \in Accounts
  /\ now \in 0 .. MaxTime
  /\ at \in [Loops -> {"idle", "found", "activating", "admitted"}]
  /\ want \in [Loops -> Devices]
  /\ pass \in [Loops -> Passwords]
  /\ doc \in [Loops -> Accounts]
  /\ \A l \in Loops :
       /\ at[l] = "activating" => doc[l].device[want[l]] = "not_active"
       /\ at[l] = "admitted" => doc[l].device[want[l]] \in {"not_active", "active"}
  /\ held \in [Loops -> SUBSET Devices]
  /\ writes \in 0 .. MaxWrites
  /\ admitted \subseteq Loops
  /\ barred \subseteq Devices
  /\ early \subseteq Loops \X Devices
  /\ offered \subseteq Devices \X Passwords
  /\ promised \subseteq Loops
  /\ sure \subseteq Loops \X Devices

\* A login is admitted only if user, password, expiry and device were in
\* order together in the database at one instant since the login came in,
\* although the parts are checked one after the other.
AdmittedAtOnce ==
  \A l \in Loops : at[l] \in {"activating", "admitted"} => l \in admitted

\* A ban stays, and a banned device gets no connection it did not have, until
\* the panel changes the device or a login that was already under way when the
\* ban was stored writes its activation over it.
BanIsFinal ==
  \A d \in barred :
    /\ account.device[d] = "banned"
    /\ \A l \in Loops : d \in held[l] => <<l, d>> \in early

\* A device with a session is active in the database, unless writing that
\* failed or the panel interfered since the login read the document.
HeldIsActive ==
  \A l \in Loops : \A d \in held[l] :
    <<l, d>> \in sure => account.device[d] = "active"

\* A login that finds its user, for a device that an activation listed under
\* the same password, is not refused while the panel changes neither, unless
\* the account is expired or undated (ClientActivate looks at no date) or the
\* device is connected: in particular not for being activated in between.
OfferHonoured ==
  [][\A l \in promised :
       at[l] = "found" /\ at'[l] = "idle" => Expired(doc[l], now) \/ Held(want[l])]_vars
=============================================================================
