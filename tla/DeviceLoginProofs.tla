------------------------- MODULE DeviceLoginProofs -------------------------
(***************************************************************************)
(* Theorems of DeviceLogin: the properties of its run, for any number of   *)
(* loops, devices, passwords and emails and any bounds.  Each property but *)
(* the type invariant is strengthened by what it needs to know of the      *)
(* logins that are under way.                                              *)
(***************************************************************************)
EXTENDS DeviceLogin, TLAPS

\* What a login under way found is what the database admitted.
AdmittedInv ==
  \A l \in Loops :
    /\ at[l] = "found" /\ Admits(doc[l], want[l], pass[l], now) => l \in admitted
    /\ at[l] \in {"activating", "admitted"} => l \in admitted

\* What uses a barred device did so when the ban was stored, or is a login that
\* read the ban and has not been decided.
BarredOf(d) ==
  /\ account.device[d] = "banned"
  /\ \A l \in Loops :
       /\ d \in held[l] => <<l, d>> \in early
       /\ at[l] # "idle" /\ want[l] = d =>
            <<l, d>> \in early \/ (at[l] = "found" /\ doc[l].device[d] = "banned")

BarredInv == \A d \in barred : BarredOf(d)

\* A device that was offered, and changed by logins only since, can log in.
Open(a, d, p) == Known(a, p) /\ a.device[d] \in {"not_active", "active"}

OffersInv ==
  /\ \A d \in Devices, p \in Passwords : <<d, p>> \in offered => Open(account, d, p)
  /\ \A l \in promised : at[l] = "found" /\ Open(doc[l], want[l], pass[l])

\* What an undisturbed login read of its device is still so, or another
\* login activated the device since.
SureOf(l) ==
  /\ \A d \in held[l] : <<l, d>> \in sure => account.device[d] = "active"
  /\ <<l, want[l]>> \in sure =>
       /\ at[l] = "found" =>
            /\ account.email = doc[l].email
            /\ doc[l].device[want[l]] = "active" => account.device[want[l]] = "active"
            /\ doc[l].device[want[l]] = "not_active" =>
                 account.device[want[l]] \in {"not_active", "active"}
       /\ at[l] = "activating" =>
            /\ account.email = doc[l].email
            /\ account.device[want[l]] \in {"not_active", "active"}
       /\ at[l] = "admitted" => account.device[want[l]] = "active"

SureInv == \A l \in Loops : SureOf(l)

USE DEF loginVars, offers, bans

-----------------------------------------------------------------------------
LEMMA TypeInit == Init => TypeOK
  BY MaxTimeAssumption, MaxWritesAssumption DEF Init, TypeOK, Accounts

LEMMA TypeFind ==
  ASSUME TypeOK, NEW l \in Loops, NEW d \in Devices, NEW p \in Passwords, Find(l, d, p)
  PROVE  TypeOK'
  BY DEF TypeOK, Find

LEMMA TypeCheck ==
  ASSUME TypeOK, NEW l \in Loops, Check(l)
  PROVE  TypeOK'
  BY DEF TypeOK, Check, Admits

LEMMA DeviceSet ==
  ASSUME NEW a \in Accounts, NEW d \in Devices,
         NEW s \in {"absent", "not_active", "active", "banned"}
  PROVE  /\ [a EXCEPT !.device[d] = s] \in Accounts
         /\ [a EXCEPT !.device[d] = s].email = a.email
         /\ [a EXCEPT !.device[d] = s].device = [a.device EXCEPT ![d] = s]
  BY DEF Accounts

\* What a login's own write may do to the document.
LEMMA ActivateEffect ==
  ASSUME TypeOK, NEW l \in Loops, ActivateDevice(l)
  PROVE  /\ account' \in Accounts
         /\ account'.email = account.email
         /\ account'.device \in {account.device, [account.device EXCEPT ![want[l]] = "active"]}
         /\ \/ sure' = sure \ {<<l, want[l]>>}
            \/ /\ sure' = sure
               /\ account.email = doc[l].email /\ account.device[want[l]] # "absent" =>
                    account'.device[want[l]] = "active"
<1>1. account \in Accounts /\ want[l] \in Devices
  BY DEF TypeOK
<1>2. /\ [account EXCEPT !.device[want[l]] = "active"] \in Accounts
      /\ [account EXCEPT !.device[want[l]] = "active"].email = account.email
      /\ [account EXCEPT !.device[want[l]] = "active"].device =
           [account.device EXCEPT ![want[l]] = "active"]
  BY <1>1, DeviceSet
<1>3. [account.device EXCEPT ![want[l]] = "active"][want[l]] = "active"
  BY <1>1 DEF Accounts
<1>4. PICK applied \in BOOLEAN :
        /\ account' = IF /\ applied
                         /\ account.email = doc[l].email
                         /\ account.device[want[l]] # "absent"
                      THEN [account EXCEPT !.device[want[l]] = "active"] ELSE account
        /\ sure' = IF applied THEN sure ELSE sure \ {<<l, want[l]>>}
  BY DEF ActivateDevice
<1>5. QED
  BY <1>1, <1>2, <1>3, <1>4

LEMMA TypeActivate ==
  ASSUME TypeOK, NEW l \in Loops, ActivateDevice(l)
  PROVE  TypeOK'
<1>1. account' \in Accounts /\ sure' \subseteq sure
  BY ActivateEffect
<1>2. barred' \subseteq barred
  BY DEF ActivateDevice
<1>3. QED
  BY <1>1, <1>2 DEF TypeOK, ActivateDevice

\* What the panel may do to the user's fields.
LEMMA UserEffect ==
  ASSUME TypeOK, PanelSetsUser
  PROVE  /\ account'.device = account.device /\ account'.email = account.email
         /\ UNCHANGED <<now, at, want, pass, doc, held, barred, early, promised, sure>>
         /\ offered' \subseteq offered
         /\ offered' = {} \/ (account'.status = account.status /\ account'.password = account.password)
<1>1. account \in Accounts
  BY DEF TypeOK
<1>2. \A s : /\ [account EXCEPT !.status = s].device = account.device
            /\ [account EXCEPT !.status = s].email = account.email
  BY <1>1 DEF Accounts
<1>3. \A p : /\ [account EXCEPT !.password = p].device = account.device
            /\ [account EXCEPT !.password = p].email = account.email
  BY <1>1 DEF Accounts
<1>4. \A t : /\ [account EXCEPT !.expires = t].device = account.device
            /\ [account EXCEPT !.expires = t].email = account.email
            /\ [account EXCEPT !.expires = t].status = account.status
            /\ [account EXCEPT !.expires = t].password = account.password
  BY <1>1 DEF Accounts
<1>5. QED
  BY <1>2, <1>3, <1>4 DEF PanelSetsUser, PanelWrites

LEMMA TypePanel ==
  ASSUME TypeOK, PanelStep
  PROVE  TypeOK'
<1>1. ASSUME NEW a \in Accounts, PanelWrites(a), barred' \subseteq Devices,
             early' \subseteq Loops \X Devices, offered' \subseteq offered,
             promised' = promised, sure' \subseteq sure
      PROVE  TypeOK'
  BY <1>1, MaxWritesAssumption DEF TypeOK, PanelWrites, AdmittedBy
<1>2. ASSUME NEW d \in Devices, NEW s \in {"absent", "not_active", "active", "banned"},
             PanelSetsDevice(d, s)
      PROVE  TypeOK'
  <2>1. [account EXCEPT !.device[d] = s] \in Accounts
    BY DeviceSet DEF TypeOK
  <2>2. barred' \subseteq Devices /\ early' \subseteq Loops \X Devices
    BY <1>2 DEF PanelSetsDevice, TypeOK
  <2>3. offered' \subseteq offered /\ promised' = promised /\ sure' \subseteq sure
    BY <1>2 DEF PanelSetsDevice
  <2>4. PanelWrites([account EXCEPT !.device[d] = s])
    BY <1>2 DEF PanelSetsDevice
  <2>5. QED
    BY <1>1, <2>1, <2>2, <2>3, <2>4
<1>3. CASE PanelSetsUser
  <2>1. \A s \in {"not_active", "active", "deleted"} :
          [account EXCEPT !.status = s] \in Accounts
    BY DEF TypeOK, Accounts
  <2>2. \A p \in Passwords : [account EXCEPT !.password = p] \in Accounts
    BY DEF TypeOK, Accounts
  <2>3. \A t \in 0 .. MaxTime \cup {NoDate} : [account EXCEPT !.expires = t] \in Accounts
    BY DEF TypeOK, Accounts
  <2>4. /\ barred' \subseteq Devices /\ early' \subseteq Loops \X Devices
        /\ offered' \subseteq offered /\ promised' = promised /\ sure' \subseteq sure
    BY <1>3 DEF PanelSetsUser, TypeOK
  <2>5. PICK a \in Accounts : PanelWrites(a)
    BY <1>3, <2>1, <2>2, <2>3 DEF PanelSetsUser
  <2>6. QED
    BY <1>1, <2>4, <2>5
<1>4. ASSUME NEW e \in Emails, PanelSetsEmail(e)
      PROVE  TypeOK'
  <2>1. [account EXCEPT !.email = e] \in Accounts
    BY DEF TypeOK, Accounts
  <2>2. QED
    BY <1>1, <1>4, <2>1 DEF PanelSetsEmail, TypeOK
<1>5. QED
  BY <1>2, <1>3, <1>4 DEF PanelStep

LEMMA TypeStep == TypeOK /\ [Next]_vars => TypeOK'
<1> SUFFICES ASSUME TypeOK, [Next]_vars PROVE TypeOK'
  OBVIOUS
<1>1. ASSUME NEW l \in Loops, LoopStep(l) PROVE TypeOK'
  <2>1. CASE Register(l)
    BY <2>1 DEF TypeOK, Register
  <2>2. CASE ReplyFailed(l)
    BY <2>2 DEF TypeOK, ReplyFailed
  <2>3. CASE \E d \in Devices : Close(l, d)
    BY <2>3 DEF TypeOK, Close
  <2>4. QED
    BY <1>1, <2>1, <2>2, <2>3, TypeFind, TypeCheck, TypeActivate DEF LoopStep
<1>2. CASE Tick
  BY <1>2, MaxTimeAssumption DEF TypeOK, Tick, AdmittedBy
<1>3. ASSUME NEW p \in Passwords, Offer(p) PROVE TypeOK'
  BY <1>3 DEF TypeOK, Offer, Offered
<1>4. CASE UNCHANGED vars
  BY <1>4 DEF TypeOK, vars
<1>5. QED
  BY <1>1, <1>2, <1>3, <1>4, TypePanel DEF Next

\* The variables of DeviceLogin stay in their types, and a login proceeds only
\* with a device that its document allows (ClientLoginImpl).
THEOREM TypeCorrect == Spec => []TypeOK
  BY TypeInit, TypeStep, PTL DEF Spec

-----------------------------------------------------------------------------
LEMMA AdmittedStep == TypeOK /\ AdmittedInv /\ [Next]_vars => AdmittedInv'
<1> SUFFICES ASSUME TypeOK, AdmittedInv, [Next]_vars PROVE AdmittedInv'
  OBVIOUS
<1>1. ASSUME NEW l \in Loops, LoopStep(l) PROVE AdmittedInv'
  <2>1. ASSUME NEW d \in Devices, NEW p \in Passwords, Find(l, d, p) PROVE AdmittedInv'
    BY <2>1 DEF TypeOK, AdmittedInv, Find
  <2>2. CASE Check(l)
    BY <2>2 DEF TypeOK, AdmittedInv, Check
  <2>3. CASE ActivateDevice(l)
    BY <2>3 DEF TypeOK, AdmittedInv, ActivateDevice
  <2>4. CASE Register(l)
    BY <2>4 DEF TypeOK, AdmittedInv, Register
  <2>5. CASE ReplyFailed(l)
    BY <2>5 DEF TypeOK, AdmittedInv, ReplyFailed
  <2>6. CASE \E d \in Devices : Close(l, d)
    BY <2>6 DEF TypeOK, AdmittedInv, Close
  <2>7. QED
    BY <1>1, <2>1, <2>2, <2>3, <2>4, <2>5, <2>6 DEF LoopStep
<1>2. ASSUME NEW a, PanelWrites(a) PROVE AdmittedInv'
  BY <1>2 DEF AdmittedInv, PanelWrites
<1>3. CASE Tick
  \* What is not expired now was not expired before.
  <2>1. \A l \in Loops : Admits(doc[l], want[l], pass[l], now')
                           => Admits(doc[l], want[l], pass[l], now)
    BY <1>3, MaxTimeAssumption DEF Tick, TypeOK, Accounts, Admits, Expired
  <2>2. QED
    BY <1>3, <2>1 DEF Tick, AdmittedInv
<1>4. ASSUME NEW p \in Passwords, Offer(p) PROVE AdmittedInv'
  BY <1>4 DEF AdmittedInv, Offer
<1>5. CASE UNCHANGED vars
  BY <1>5 DEF AdmittedInv, vars
<1>6. QED
  BY <1>1, <1>2, <1>3, <1>4, <1>5
  DEF Next, PanelStep, PanelSetsDevice, PanelSetsUser, PanelSetsEmail

\* Whatever the panel writes while a login is under way, the login is admitted
\* only if one state of the database admits it (ClientLoginImpl).
THEOREM AlwaysAdmittedAtOnce == Spec => []AdmittedAtOnce
<1>1. Init => AdmittedInv
  BY DEF Init, AdmittedInv
<1>2. AdmittedInv => AdmittedAtOnce
  BY DEF AdmittedInv, AdmittedAtOnce
<1>3. QED
  BY <1>1, <1>2, AdmittedStep, TypeCorrect, PTL DEF Spec

-----------------------------------------------------------------------------
LEMMA BarredPanel == TypeOK /\ BarredInv /\ PanelStep => BarredInv'
<1> SUFFICES ASSUME TypeOK, BarredInv, PanelStep PROVE BarredInv'
  OBVIOUS
<1> USE DEF BarredInv, BarredOf
<1>1. ASSUME NEW d \in Devices, NEW s \in {"absent", "not_active", "active", "banned"},
             PanelSetsDevice(d, s)
      PROVE  BarredInv'
  <2>1. account'.device = [account.device EXCEPT ![d] = s]
    BY <1>1, DeviceSet DEF TypeOK, PanelSetsDevice, PanelWrites
  <2>2. account.device \in [Devices -> {"absent", "not_active", "active", "banned"}]
    BY DEF TypeOK, Accounts
  <2>3. UNCHANGED <<at, want, doc, held>> /\ barred \subseteq Devices
    BY <1>1 DEF PanelSetsDevice, PanelWrites, TypeOK
  <2>4. ASSUME d \in barred' PROVE BarredOf(d)'
    <3>1. s = "banned"
      BY <1>1, <2>4 DEF PanelSetsDevice
    <3>2. \A l \in Loops : Uses(l, d) => <<l, d>> \in early'
      BY <1>1, <3>1 DEF PanelSetsDevice
    <3>3. QED
      BY <2>1, <2>2, <2>3, <3>1, <3>2 DEF Uses
  <2>5. ASSUME NEW c \in barred', c # d PROVE BarredOf(c)'
    <3>1. c \in barred /\ account'.device[c] = account.device[c]
      BY <1>1, <2>1, <2>2, <2>3, <2>5 DEF PanelSetsDevice
    <3>2. \A l \in Loops : <<l, c>> \in early => <<l, c>> \in early'
      BY <1>1, <2>5 DEF PanelSetsDevice
    <3>3. QED
      BY <2>3, <3>1, <3>2
  <2>6. QED
    BY <2>4, <2>5
<1>2. CASE PanelSetsUser
  BY <1>2, UserEffect
<1>3. ASSUME NEW e \in Emails, PanelSetsEmail(e) PROVE BarredInv'
  BY <1>3 DEF PanelSetsEmail, PanelWrites, TypeOK, Accounts
<1>4. QED
  BY <1>1, <1>2, <1>3 DEF PanelStep

LEMMA BarredActivate ==
  ASSUME TypeOK, BarredInv, NEW l \in Loops, ActivateDevice(l)
  PROVE  BarredInv'
<1> USE DEF BarredInv, BarredOf
<1>1. account.device \in [Devices -> {"absent", "not_active", "active", "banned"}]
  BY DEF TypeOK, Accounts
<1>2. /\ at' = [at EXCEPT ![l] = "admitted"] /\ at[l] = "activating"
      /\ UNCHANGED <<want, doc, held, early>> /\ barred' \subseteq barred
  BY DEF ActivateDevice
<1>3. barred \subseteq Devices /\ want[l] \in Devices /\ at \in [Loops -> {"idle", "found", "activating", "admitted"}]
  BY DEF TypeOK
\* Only a login that was under way at the ban gets here, and if its update is
\* applied the device is no longer counted as barred.
<1>4. want[l] \in barred' => account' = account
  BY <1>2 DEF ActivateDevice
<1>5. ASSUME NEW d \in barred' PROVE account'.device[d] = account.device[d]
  <2>1. CASE d = want[l]
    BY <1>4, <2>1
  <2>2. CASE d # want[l]
    BY <1>1, <1>2, <1>3, <2>2, ActivateEffect
  <2>3. QED
    BY <2>1, <2>2
<1>6. QED
  BY <1>2, <1>3, <1>5

LEMMA BarredFind ==
  ASSUME TypeOK, BarredInv, NEW l \in Loops, NEW d \in Devices, NEW p \in Passwords,
         Find(l, d, p)
  PROVE  BarredInv'
<1> USE DEF BarredInv, BarredOf
<1>1. /\ at[l] = "idle" /\ at' = [at EXCEPT ![l] = "found"]
      /\ want' = [want EXCEPT ![l] = d] /\ doc' = [doc EXCEPT ![l] = account]
      /\ UNCHANGED <<account, held, barred>>
  BY DEF Find
<1>2. \A k \in Loops, c \in Devices : <<k, c>> # <<l, d>> =>
        (<<k, c>> \in early' <=> <<k, c>> \in early)
  BY DEF Find
<1>3. d \in held[l] => early' = early
  BY DEF Find
<1>4. barred \subseteq Devices
  BY DEF TypeOK
<1>5. ASSUME NEW c \in barred PROVE BarredOf(c)'
  <2>1. ASSUME NEW k \in Loops, k # l
        PROVE  /\ c \in held'[k] => <<k, c>> \in early'
               /\ at'[k] # "idle" /\ want'[k] = c =>
                    <<k, c>> \in early' \/ (at'[k] = "found" /\ doc'[k].device[c] = "banned")
    BY <1>1, <1>2, <1>4, <2>1 DEF TypeOK
  <2>2. c \in held'[l] => <<l, c>> \in early'
    BY <1>1, <1>2, <1>3, <1>4
  <2>3. at'[l] = "found" /\ doc'[l] = account
    BY <1>1 DEF TypeOK
  <2>4. QED
    BY <1>1, <2>1, <2>2, <2>3
<1>6. QED
  BY <1>1, <1>5

LEMMA BarredStep == TypeOK /\ BarredInv /\ [Next]_vars => BarredInv'
<1> SUFFICES ASSUME TypeOK, BarredInv, [Next]_vars PROVE BarredInv'
  OBVIOUS
<1> USE DEF BarredInv, BarredOf
<1>1. ASSUME NEW l \in Loops, LoopStep(l) PROVE BarredInv'
  <2>1. CASE Check(l)
    BY <2>1 DEF TypeOK, Check, Admits
  <2>2. CASE Register(l)
    BY <2>2 DEF TypeOK, Register
  <2>3. CASE ReplyFailed(l)
    BY <2>3 DEF TypeOK, ReplyFailed
  <2>4. ASSUME NEW d \in Devices, Close(l, d) PROVE BarredInv'
    <3>1. \A c \in Devices, k \in Loops : c \in held'[k] =>
            c \in held[k] /\ (<<k, c>> \in early => <<k, c>> \in early')
      BY <2>4 DEF TypeOK, Close
    <3>2. \A c \in Devices, k \in Loops : at[k] # "idle" =>
            (<<k, c>> \in early => <<k, c>> \in early')
      BY <2>4 DEF Close
    <3>3. UNCHANGED <<account, at, want, doc, barred>>
      BY <2>4 DEF Close
    <3>4. QED
      BY <3>1, <3>2, <3>3 DEF TypeOK
  <2>5. QED
    BY <1>1, <2>1, <2>2, <2>3, <2>4, BarredFind, BarredActivate DEF LoopStep
<1>2. CASE Tick
  BY <1>2 DEF Tick
<1>3. ASSUME NEW p \in Passwords, Offer(p) PROVE BarredInv'
  BY <1>3 DEF Offer
<1>4. CASE UNCHANGED vars
  BY <1>4 DEF vars
<1>5. QED
  BY <1>1, <1>2, <1>3, <1>4, BarredPanel DEF Next

\* A ban is overwritten by no activation of ClientLoginImpl but one whose login
\* was under way when it was stored, and lets in no connection but one that was.
THEOREM BansAlwaysFinal == Spec => []BanIsFinal
<1>1. Init => BarredInv
  BY DEF Init, BarredInv
<1>2. BarredInv => BanIsFinal
  BY DEF BarredInv, BarredOf, BanIsFinal
<1>3. QED
  BY <1>1, <1>2, BarredStep, TypeCorrect, PTL DEF Spec

-----------------------------------------------------------------------------
LEMMA SurePanel == TypeOK /\ SureInv /\ PanelStep => SureInv'
<1> SUFFICES ASSUME TypeOK, SureInv, PanelStep PROVE SureInv'
  OBVIOUS
<1> USE DEF SureInv, SureOf
<1>1. ASSUME NEW d \in Devices, NEW s \in {"absent", "not_active", "active", "banned"},
             PanelSetsDevice(d, s)
      PROVE  SureInv'
  <2>1. /\ account'.device = [account.device EXCEPT ![d] = s]
        /\ account'.email = account.email
    BY <1>1, DeviceSet DEF TypeOK, PanelSetsDevice, PanelWrites
  <2>2. account.device \in [Devices -> {"absent", "not_active", "active", "banned"}]
    BY DEF TypeOK, Accounts
  <2>3. UNCHANGED <<at, want, doc, held>>
    BY <1>1 DEF PanelSetsDevice, PanelWrites
  <2>4. \A l \in Loops, c \in Devices :
          <<l, c>> \in sure' => <<l, c>> \in sure /\ account'.device[c] = account.device[c]
    BY <1>1, <2>1, <2>2 DEF PanelSetsDevice
  <2>5. \A l \in Loops : want[l] \in Devices /\ held[l] \subseteq Devices
    BY DEF TypeOK
  <2>6. QED
    BY <2>1, <2>3, <2>4, <2>5
<1>2. CASE PanelSetsUser
  BY <1>2, UserEffect
<1>3. ASSUME NEW e \in Emails, PanelSetsEmail(e) PROVE SureInv'
  <2>1. account'.device = account.device
    BY <1>3 DEF PanelSetsEmail, PanelWrites, TypeOK, Accounts
  <2>2. UNCHANGED <<at, want, doc, held>>
    BY <1>3 DEF PanelSetsEmail, PanelWrites
  <2>3. \A l \in Loops, c \in Devices : <<l, c>> \in sure' => <<l, c>> \in sure /\ at[l] = "idle"
    BY <1>3 DEF PanelSetsEmail
  <2>4. \A l \in Loops : want[l] \in Devices /\ held[l] \subseteq Devices
    BY DEF TypeOK
  <2>5. QED
    BY <2>1, <2>2, <2>3, <2>4
<1>4. QED
  BY <1>1, <1>2, <1>3 DEF PanelStep

LEMMA SureActivate ==
  ASSUME TypeOK, SureInv, NEW l \in Loops, ActivateDevice(l)
  PROVE  SureInv'
<1> USE DEF SureInv, SureOf
<1>1. account.device \in [Devices -> {"absent", "not_active", "active", "banned"}]
  BY DEF TypeOK, Accounts
<1>2. /\ at' = [at EXCEPT ![l] = "admitted"] /\ at[l] = "activating"
      /\ UNCHANGED <<want, doc, held>>
  BY DEF ActivateDevice
<1>3. \A k \in Loops : want[k] \in Devices /\ held[k] \subseteq Devices
  BY DEF TypeOK
\* A device may only have become active.
<1>4. \A d \in Devices : account'.device[d] \in {account.device[d], "active"}
  BY <1>1, <1>3, ActivateEffect
<1>5. sure' \subseteq sure /\ account'.email = account.email
  BY ActivateEffect
<1>6. <<l, want[l]>> \in sure' => account'.device[want[l]] = "active"
  BY <1>2, ActivateEffect
<1>7. ASSUME NEW k \in Loops PROVE SureOf(k)'
  <2>1. \A d \in held'[k] : <<k, d>> \in sure' => account'.device[d] = "active"
    BY <1>2, <1>3, <1>4, <1>5
  <2>2. CASE k = l
    BY <1>2, <1>6, <2>1, <2>2 DEF TypeOK
  <2>3. CASE k # l
    BY <1>2, <1>3, <1>4, <1>5, <2>1, <2>3 DEF TypeOK
  <2>4. QED
    BY <2>2, <2>3
<1>8. QED
  BY <1>7

LEMMA SureStep == TypeOK /\ SureInv /\ [Next]_vars => SureInv'
<1> SUFFICES ASSUME TypeOK, SureInv, [Next]_vars PROVE SureInv'
  OBVIOUS
<1> USE DEF SureInv, SureOf
<1>1. ASSUME NEW l \in Loops, LoopStep(l) PROVE SureInv'
  <2>1. ASSUME NEW d \in Devices, NEW p \in Passwords, Find(l, d, p) PROVE SureInv'
    BY <2>1 DEF TypeOK, Find
  <2>2. CASE Check(l)
    BY <2>2 DEF TypeOK, Check, Admits
  <2>3. CASE Register(l)
    BY <2>3 DEF TypeOK, Register
  <2>4. CASE ReplyFailed(l)
    BY <2>4 DEF TypeOK, ReplyFailed
  <2>5. CASE \E d \in Devices : Close(l, d)
    BY <2>5 DEF TypeOK, Close
  <2>6. QED
    BY <1>1, <2>1, <2>2, <2>3, <2>4, <2>5, SureActivate DEF LoopStep
<1>2. CASE Tick
  BY <1>2 DEF Tick
<1>3. ASSUME NEW p \in Passwords, Offer(p) PROVE SureInv'
  BY <1>3 DEF Offer
<1>4. CASE UNCHANGED vars
  BY <1>4 DEF vars
<1>5. QED
  BY <1>1, <1>2, <1>3, <1>4, SurePanel DEF Next

\* A registered device is active in the database, but for a failed update of
\* ClientLoginImpl (its error is only logged) and writes of the panel.
THEOREM HeldAlwaysActive == Spec => []HeldIsActive
<1>1. Init => SureInv
  BY DEF Init, SureInv, SureOf
<1>2. SureInv => HeldIsActive
  BY DEF SureInv, SureOf, HeldIsActive
<1>3. QED
  BY <1>1, <1>2, SureStep, TypeCorrect, PTL DEF Spec

-----------------------------------------------------------------------------
LEMMA OffersPanel == TypeOK /\ OffersInv /\ PanelStep => OffersInv'
<1> SUFFICES ASSUME TypeOK, OffersInv, PanelStep PROVE OffersInv'
  OBVIOUS
<1> USE DEF OffersInv, Open, Known
<1>1. ASSUME NEW d \in Devices, NEW s \in {"absent", "not_active", "active", "banned"},
             PanelSetsDevice(d, s)
      PROVE  OffersInv'
  <2>1. /\ account'.device = [account.device EXCEPT ![d] = s]
        /\ account'.status = account.status /\ account'.password = account.password
    BY <1>1 DEF TypeOK, Accounts, PanelSetsDevice, PanelWrites
  <2>2. account.device \in [Devices -> {"absent", "not_active", "active", "banned"}]
    BY DEF TypeOK, Accounts
  <2>3. \A c \in Devices, p \in Passwords :
          <<c, p>> \in offered' => <<c, p>> \in offered /\ account'.device[c] = account.device[c]
    BY <1>1, <2>1, <2>2 DEF PanelSetsDevice
  <2>4. UNCHANGED <<at, want, pass, doc, promised>>
    BY <1>1 DEF PanelSetsDevice, PanelWrites
  <2>5. QED
    BY <2>1, <2>3, <2>4
<1>2. CASE PanelSetsUser
  BY <1>2, UserEffect
<1>3. ASSUME NEW e \in Emails, PanelSetsEmail(e) PROVE OffersInv'
  BY <1>3 DEF PanelSetsEmail, PanelWrites, TypeOK, Accounts
<1>4. QED
  BY <1>1, <1>2, <1>3 DEF PanelStep

LEMMA OffersStep == TypeOK /\ OffersInv /\ [Next]_vars => OffersInv'
<1> SUFFICES ASSUME TypeOK, OffersInv, [Next]_vars PROVE OffersInv'
  OBVIOUS
<1> USE DEF OffersInv, Open, Known
<1>1. ASSUME NEW l \in Loops, LoopStep(l) PROVE OffersInv'
  <2>1. ASSUME NEW d \in Devices, NEW p \in Passwords, Find(l, d, p) PROVE OffersInv'
    BY <2>1 DEF TypeOK, Find
  <2>2. CASE Check(l)
    BY <2>2 DEF TypeOK, Check
  <2>3. CASE ActivateDevice(l)
    <3>1. account.device \in [Devices -> {"absent", "not_active", "active", "banned"}]
      BY DEF TypeOK, Accounts
    <3>2. \A d \in Devices : account'.device[d] \in {account.device[d], "active"}
      <4>1. want[l] \in Devices
        BY DEF TypeOK
      <4>2. account'.device \in {account.device, [account.device EXCEPT ![want[l]] = "active"]}
        BY <2>3, ActivateEffect
      <4>3. QED
        BY <3>1, <4>1, <4>2
    <3>3. account'.status = account.status /\ account'.password = account.password
      BY <2>3 DEF ActivateDevice, TypeOK, Accounts
    <3>4. /\ at' = [at EXCEPT ![l] = "admitted"] /\ at[l] = "activating"
          /\ UNCHANGED <<want, pass, doc, offered, promised>>
      BY <2>3 DEF ActivateDevice
    <3>5. QED
      BY <2>3, <3>2, <3>3, <3>4 DEF TypeOK
  <2>4. CASE Register(l)
    BY <2>4 DEF TypeOK, Register
  <2>5. CASE ReplyFailed(l)
    BY <2>5 DEF TypeOK, ReplyFailed
  <2>6. CASE \E d \in Devices : Close(l, d)
    BY <2>6 DEF TypeOK, Close
  <2>7. QED
    BY <1>1, <2>1, <2>2, <2>3, <2>4, <2>5, <2>6 DEF LoopStep
<1>2. CASE Tick
  BY <1>2 DEF Tick
<1>3. ASSUME NEW p \in Passwords, Offer(p) PROVE OffersInv'
  BY <1>3 DEF Offer, Offered
<1>4. CASE UNCHANGED vars
  BY <1>4 DEF vars
<1>5. QED
  BY <1>1, <1>2, <1>3, <1>4, OffersPanel DEF Next

\* What ClientActivate listed ClientLogin does not refuse later, whatever the
\* logins of the loops did meanwhile, but for the date and a connection.
THEOREM OffersAlwaysHonoured == Spec => OfferHonoured
<1> DEFINE Honoured ==
      \A l \in promised :
        at[l] = "found" /\ at'[l] = "idle" => Expired(doc[l], now) \/ Held(want[l])
<1>1. Init => OffersInv
  BY DEF Init, OffersInv
<1>2. TypeOK /\ OffersInv /\ [Next]_vars => [Honoured]_vars
  <2> SUFFICES ASSUME TypeOK, OffersInv, Next,
                      NEW l \in promised, at[l] = "found", at'[l] = "idle"
               PROVE  Expired(doc[l], now) \/ Held(want[l])
    OBVIOUS
  <2>1. l \in Loops /\ at \in [Loops -> {"idle", "found", "activating", "admitted"}]
    BY DEF TypeOK
  \* Of all steps only the decision ends a login that has been found.
  <2>2. Check(l)
    <3>1. ASSUME NEW k \in Loops, LoopStep(k) PROVE Check(l)
      <4>1. k = l => Check(l)
        BY <2>1, <3>1
        DEF LoopStep, Find, ActivateDevice, Register, ReplyFailed, Close
      <4>2. k # l => at'[l] = at[l]
        BY <2>1, <3>1
        DEF LoopStep, Find, Check, ActivateDevice, Register, ReplyFailed, Close
      <4>3. QED
        BY <4>1, <4>2
    <3>2. ~PanelStep
      BY DEF PanelStep, PanelSetsDevice, PanelSetsUser, PanelSetsEmail, PanelWrites
    <3>3. ~Tick /\ ~\E p \in Passwords : Offer(p)
      BY DEF Tick, Offer
    <3>4. QED
      BY <3>1, <3>2, <3>3 DEF Next
  <2>3. ~Admits(doc[l], want[l], pass[l], now) \/ Held(want[l])
    BY <2>1, <2>2 DEF Check
  <2>4. QED
    BY <2>3 DEF OffersInv, Open, Admits
<1>3. QED
  BY <1>1, <1>2, OffersStep, TypeCorrect, PTL DEF Spec, OfferHonoured

=============================================================================
