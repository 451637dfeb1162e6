-------------------------- MODULE PlaybackProofs ---------------------------
(***************************************************************************)
(* Theorems of Playback, for any users, documents and outputs: whose urls  *)
(* and directories are answered, what may be refused, and which documents  *)
(* stay readable.                                                          *)
(***************************************************************************)
EXTENDS Playback, FiniteSetTheorems, WellFoundedInduction, TLAPS

-----------------------------------------------------------------------------
(***************************************************************************)
(* The first output with an id.                                            *)
(***************************************************************************)

LEMMA NatMinimum ==
  ASSUME NEW T, T \subseteq Nat, T # {}
  PROVE  \E i \in T : \A j \in T : i <= j
<1>1. PICK i \in T : \A j \in T : <<j, i>> \notin OpToRel(<, Nat)
  BY WFMin, NatLessThanWellFounded
<1>2. \A j \in T : ~(j < i)
  BY <1>1 DEF OpToRel
<1>3. QED
  BY <1>2

\* The outputs of a document are placed by numbers, and their urls and
\* directories belong to the stream.
Owns(doc, id) ==
  /\ DOMAIN doc.output \subseteq Nat
  /\ \A i \in DOMAIN doc.output : {doc.output[i].url, doc.output[i].root} \subseteq {id, None}

LEMMA OutputIsUsable ==
  ASSUME NEW doc, NEW id, NEW cid, Owns(doc, id), Places(doc, cid) # {}
  PROVE  /\ Output(doc, cid).url = id
         /\ Output(doc, cid).root \in {id, None}
<1>1. Places(doc, cid) \subseteq {i \in DOMAIN doc.output : Usable(doc.output[i])}
  BY DEF Places, OutputUrlData
<1>2. \E i \in Places(doc, cid) : \A j \in Places(doc, cid) : i <= j
  BY <1>1, NatMinimum DEF Owns
<1>3. PICK i \in Places(doc, cid) : Output(doc, cid) = doc.output[i]
  BY <1>2 DEF Output
<1>4. QED
  BY <1>1, <1>3 DEF Owns, Usable

AnswersOf(id) == [kind : {"url", "directory"}, of : {id}]

\* Whatever the search answers belongs to the stream of the document.
LEMMA FindOwns ==
  ASSUME NEW doc, NEW id, NEW cid, NEW onDisk \in BOOLEAN, NEW k \in Arrays,
         Owns(doc, id)
  PROVE  Find(k, doc, cid, onDisk) \in AnswersOf(id) \cup {Fail}
<1>1. Url(doc, cid) \in AnswersOf(id) \cup {Fail}
  BY OutputIsUsable DEF Url, AnswersOf
<1>2. HttpRoot(doc, cid) \in AnswersOf(id) \cup {Fail}
  BY OutputIsUsable DEF HttpRoot, AnswersOf
<1>3. RootOrUrl(doc, cid, onDisk) \in AnswersOf(id) \cup {Fail}
  BY <1>1, <1>2 DEF RootOrUrl
<1>4. k = "streams" \/ k = "vods" \/ k = "catchups"
  BY DEF Arrays
<1>5. CASE doc.cls = None
  BY <1>5 DEF Find
<1>6. CASE doc.cls # None /\ k = "streams"
  BY <1>1, <1>3, <1>6 DEF Find, FindInStreams
<1>7. CASE doc.cls # None /\ k = "vods"
  BY <1>1, <1>3, <1>7 DEF Find, FindInVods
<1>8. CASE doc.cls # None /\ k = "catchups"
  BY <1>1, <1>3, <1>8 DEF Find, FindInCatchups
<1>9. QED
  BY <1>4, <1>5, <1>6, <1>7, <1>8

-----------------------------------------------------------------------------
(***************************************************************************)
(* Answers belong to the requested stream and to the connection's user.    *)
(***************************************************************************)

Answers == [kind : {"url", "directory"}, of : Ids] \cup {Fail}

Conns ==
  [step : {"ready", "asked", "found", "answered"},
   user : Users \cup {NoUser}, sid : Playable \cup {None}, cid : Cids \cup {None},
   array : Arrays \cup {None}, answer : Answers]

LEMMA FreshConn ==
  /\ Fail \in Answers
  /\ \A user \in Users \cup {NoUser} : [Fresh EXCEPT !.user = user] \in Conns
  /\ Fresh \in Conns
<1>1. Fail \in Answers
  BY DEF Answers
<1>2. QED
  BY <1>1 DEF Fresh, Conns

Shape ==
  /\ docs = [id \in Ids |-> docs[id]]
  /\ lists \in [Users -> [Arrays -> SUBSET Ids]]
  /\ conn \in Conns

DocsOwned == \A id \in Ids : docs[id] # None => Owns(docs[id], id)

\* What the program looks up between two reads was the user's at some time.
LookupOwned ==
  /\ conn.step \in {"asked", "found"} =>
       conn.user \in Users /\ conn.sid \in Playable /\ Has(conn.user) \subseteq owned
  /\ conn.step = "found" => conn.sid \in owned /\ conn.array \in Arrays

AnswerInv == Shape /\ DocsOwned /\ LookupOwned /\ AnswersAreRequested

LEMMA AnswerInit == Init => AnswerInv
<1> SUFFICES ASSUME Init PROVE AnswerInv
  OBVIOUS
<1>1. docs = [id \in Ids |-> docs[id]] /\ \A id \in Ids : docs[id] \in PanelDocs[id] \cup {None}
  BY DEF Init
<1>2. DocsOwned
  BY <1>1, PlaybackAssumption DEF DocsOwned, Owns
<1>3. Given \subseteq Ids
  BY DEF Given, Playable
<1>4. lists \in [Users -> [Arrays -> SUBSET Ids]]
  BY <1>3 DEF Init
<1>5. conn = Fresh
  BY DEF Init
<1>6. Shape
  BY <1>1, <1>4, <1>5, FreshConn DEF Shape
<1>7. conn.step = "ready"
  BY <1>5 DEF Fresh
<1>8. QED
  BY <1>2, <1>6, <1>7 DEF AnswerInv, LookupOwned, AnswersAreRequested

\* The documents the program writes and counts.
LEMMA CatchupOwns ==
  ASSUME NEW id \in Ids, NEW channel, NEW cid, Owns(channel, cid)
  PROVE  Owns(CatchupDoc(id, channel), id)
<1>1. DOMAIN OutputUrlData(channel) \subseteq Nat
  BY DEF OutputUrlData, Owns
<1>2. QED
  BY <1>1 DEF CatchupDoc, CatchupOutput, Owns

LEMMA RequestOwns ==
  ASSUME NEW id PROVE Owns(RequestDoc, id)
  BY DEF RequestDoc, Owns

LEMMA IncrementKeepsOutput ==
  ASSUME NEW doc, NEW id, Owns(doc, id) PROVE Owns(Increment(doc), id)
  BY DEF Increment, Owns

LEMMA AnswerHttp ==
  ASSUME AnswerInv,
         \/ \E u \in Users, sid \in Playable, cid \in Cids : Receive(u, sid, cid)
         \/ \E user \in Users \cup {NoUser} : Refuse(user)
         \/ FindUser
         \/ \E onDisk \in BOOLEAN : FindStream(onDisk)
         \/ \E keepAlive \in BOOLEAN : Finish(keepAlive)
  PROVE  AnswerInv'
<1>1. UNCHANGED <<docs, lists>>
  BY DEF Receive, Refuse, FindUser, FindStream, Finish
<1>2. DocsOwned'
  BY <1>1 DEF AnswerInv, DocsOwned
<1>3. /\ docs' = [id \in Ids |-> docs'[id]]
      /\ lists' \in [Users -> [Arrays -> SUBSET Ids]]
  BY <1>1 DEF AnswerInv, Shape
<1> USE DEF AnswerInv, Shape, LookupOwned, AnswersAreRequested
<1>4. ASSUME NEW u \in Users, NEW sid \in Playable, NEW cid \in Cids, Receive(u, sid, cid)
      PROVE  AnswerInv'
  <2>1. LoginOf(u) \in Users
    BY DEF LoginOf, Conns
  <2>3. /\ conn'.step = "asked" /\ conn'.user = LoginOf(u) /\ conn'.sid = sid
        /\ conn' \in Conns
    BY <1>4, <2>1 DEF Receive, Conns
  <2>4. Has(conn.user)' \subseteq owned'
    BY <1>1, <1>4, <2>3 DEF Receive, Has
  <2>5. QED
    BY <1>2, <1>3, <2>1, <2>3, <2>4
<1>5. ASSUME NEW user \in Users \cup {NoUser}, Refuse(user) PROVE AnswerInv'
  <2>1. conn'.step = "answered" /\ conn'.answer = Fail /\ conn' \in Conns
    BY <1>5, FreshConn DEF Refuse, Conns
  <2>2. QED
    BY <1>2, <1>3, <2>1
<1>6. CASE FindUser
  <2>1. CASE conn'.step = "answered"
    <3>1. conn' = [conn EXCEPT !.step = "answered", !.answer = Fail]
      BY <1>6, <2>1 DEF FindUser, Conns
    <3>2. conn'.step = "answered" /\ conn'.answer = Fail /\ conn' \in Conns
      BY <3>1, FreshConn DEF Conns
    <3>3. QED
      BY <1>2, <1>3, <3>2
  <2>2. CASE conn'.step # "answered"
    <3>1. PICK i \in DOMAIN SearchOrder :
            /\ conn.sid \in lists[conn.user][SearchOrder[i]]
            /\ conn' = [conn EXCEPT !.step = "found", !.array = SearchOrder[i]]
      BY <1>6, <2>2 DEF FindUser, Conns
    <3>2. SearchOrder[i] \in Arrays
      BY DEF SearchOrder, Arrays
    <3>3. conn.step = "asked" /\ owned' = owned
      BY <1>6 DEF FindUser
    <3>4. conn.sid \in owned
      BY <3>1, <3>2, <3>3 DEF Has
    <3>5. conn'.user = conn.user /\ conn'.sid = conn.sid /\ conn'.array \in Arrays
          /\ conn'.step = "found"
      BY <3>1, <3>2 DEF Conns
    <3>6. Has(conn.user)' \subseteq owned'
      BY <1>1, <3>3, <3>5 DEF Has
    <3>7. conn' \in Conns
      BY <3>1, <3>2 DEF Conns
    <3>8. QED
      BY <1>2, <1>3, <3>3, <3>4, <3>5, <3>6, <3>7
  <2>3. QED
    BY <2>1, <2>2
<1>7. ASSUME NEW onDisk \in BOOLEAN, FindStream(onDisk) PROVE AnswerInv'
  <2> DEFINE answer == IF docs[conn.sid] = None THEN Fail
                       ELSE Find(conn.array, docs[conn.sid], conn.cid, onDisk)
  <2>1. /\ conn.step = "found" /\ owned' = owned
        /\ conn' = [conn EXCEPT !.step = "answered", !.answer = answer]
    BY <1>7 DEF FindStream
  <2>2. conn.sid \in Ids /\ conn.array \in Arrays /\ conn.sid \in owned
    BY <2>1 DEF Playable
  <2>3. answer \in AnswersOf(conn.sid) \cup {Fail}
    BY <2>2, FindOwns DEF DocsOwned
  <2> HIDE DEF answer
  <2>4. answer \in Answers
    BY <2>2, <2>3 DEF Answers, AnswersOf
  <2>5. /\ conn' \in Conns
        /\ conn'.step = "answered" /\ conn'.answer = answer /\ conn'.sid = conn.sid
    BY <2>1, <2>4 DEF Conns
  <2>6. answer # Fail => answer.of = conn.sid
    BY <2>3 DEF AnswersOf
  <2>7. QED
    BY <1>2, <1>3, <2>1, <2>2, <2>5, <2>6
<1>8. ASSUME NEW keepAlive \in BOOLEAN, Finish(keepAlive) PROVE AnswerInv'
  <2>1. conn'.step = "ready"
    BY <1>8 DEF Finish, Fresh
  <2>2. conn' \in Conns
    BY <1>8, FreshConn DEF Finish, Conns
  <2>3. QED
    BY <1>2, <1>3, <2>1, <2>2
<1>9. QED
  BY <1>4, <1>5, <1>6, <1>7, <1>8

LEMMA AnswerPrograms ==
  ASSUME AnswerInv,
         \/ \E u \in Users, sid, id \in Ids : CreateCatchup(u, sid, id)
         \/ \E id \in Ids : CreateRequestContent(id) \/ CountView(id)
  PROVE  AnswerInv'
<1> USE DEF AnswerInv
<1>1. ASSUME NEW u \in Users, NEW sid \in Ids, NEW id \in Ids, CreateCatchup(u, sid, id)
      PROVE  AnswerInv'
  <2>1. /\ conn' = conn /\ docs[sid] # None /\ sid \in Ids
        /\ docs' = [docs EXCEPT ![id] = CatchupDoc(id, docs[sid])]
        /\ lists' = [lists EXCEPT ![u]["catchups"] = @ \cup {id}]
        /\ owned' = IF u = conn.user /\ conn.step \in {"asked", "found"}
                    THEN owned \cup {id} ELSE owned
    BY <1>1 DEF CreateCatchup, FindsStream
  <2>2. Owns(CatchupDoc(id, docs[sid]), id)
    BY <2>1, CatchupOwns DEF DocsOwned
  <2>3. DocsOwned'
    BY <2>1, <2>2 DEF DocsOwned, Shape
  <2>4. Shape'
    BY <2>1 DEF Shape, Arrays
  <2>5. LookupOwned'
    BY <2>1 DEF LookupOwned, Has, Shape, Arrays
  <2>6. AnswersAreRequested'
    BY <2>1 DEF AnswersAreRequested
  <2>7. QED
    BY <2>3, <2>4, <2>5, <2>6
<1>2. ASSUME NEW id \in Ids, CreateRequestContent(id) \/ CountView(id) PROVE AnswerInv'
  <2>1. /\ UNCHANGED <<lists, conn, owned>>
        /\ \/ docs' = [docs EXCEPT ![id] = RequestDoc]
           \/ docs[id] # None /\ docs' = [docs EXCEPT ![id] = Increment(docs[id])]
    BY <1>2 DEF CreateRequestContent, CountView
  <2>2. DocsOwned'
    BY <2>1, RequestOwns, IncrementKeepsOutput DEF DocsOwned, Shape
  <2>3. Shape'
    BY <2>1 DEF Shape
  <2>4. QED
    BY <2>1, <2>2, <2>3 DEF LookupOwned, Has, AnswersAreRequested
<1>3. QED
  BY <1>1, <1>2

LEMMA AnswerPanel ==
  ASSUME AnswerInv, Panel
  PROVE  AnswerInv'
<1> USE DEF AnswerInv
<1>1. conn' = conn
  BY DEF Panel
<1>2. ASSUME NEW id \in Ids, PanelDeletes(id) \/ \E doc \in PanelDocs[id] : PanelWrites(id, doc)
      PROVE  AnswerInv'
  <2>1. /\ UNCHANGED <<lists, owned>>
        /\ \E doc \in PanelDocs[id] \cup {None} : docs' = [docs EXCEPT ![id] = doc]
    BY <1>2 DEF PanelDeletes, PanelWrites
  <2>2. \A doc \in PanelDocs[id] : Owns(doc, id)
    BY PlaybackAssumption DEF Owns
  <2>3. DocsOwned'
    BY <2>1, <2>2 DEF DocsOwned, Shape
  <2>4. Shape'
    BY <1>1, <2>1 DEF Shape
  <2>5. QED
    BY <1>1, <2>1, <2>3, <2>4 DEF LookupOwned, Has, AnswersAreRequested
<1>3. ASSUME NEW u \in Users, NEW id \in Playable, PanelLists(u, id) \/ PanelUnlists(u, id)
      PROVE  AnswerInv'
  <2>1. id \in Ids /\ ArrayOf(id) \in Arrays
    BY DEF Playable, ArrayOf, Arrays
  <2>2. docs' = docs
    BY <1>3 DEF PanelLists, PanelUnlists
  <2>3. CASE PanelLists(u, id)
    <3>1. /\ lists' = [lists EXCEPT ![u][ArrayOf(id)] = @ \cup {id}]
          /\ owned' = IF u = conn.user /\ conn.step \in {"asked", "found"}
                      THEN owned \cup {id} ELSE owned
      BY <2>3 DEF PanelLists
    <3>2. Shape'
      BY <1>1, <2>1, <2>2, <3>1 DEF Shape
    <3>3. LookupOwned'
      BY <1>1, <2>1, <3>1 DEF LookupOwned, Has, Shape
    <3>4. QED
      BY <1>1, <2>2, <3>1, <3>2, <3>3 DEF DocsOwned, AnswersAreRequested
  <2>4. CASE PanelUnlists(u, id)
    <3>1. lists' = [lists EXCEPT ![u][ArrayOf(id)] = @ \ {id}] /\ owned' = owned
      BY <2>4 DEF PanelUnlists
    <3>2. Shape'
      BY <1>1, <2>1, <2>2, <3>1 DEF Shape
    <3>3. LookupOwned'
      BY <1>1, <2>1, <3>1 DEF LookupOwned, Has, Shape
    <3>4. QED
      BY <1>1, <2>2, <3>1, <3>2, <3>3 DEF DocsOwned, AnswersAreRequested
  <2>5. QED
    BY <1>3, <2>3, <2>4
<1>4. QED
  BY <1>2, <1>3 DEF Panel

LEMMA AnswerStep == AnswerInv /\ [Next]_vars => AnswerInv'
<1> SUFFICES ASSUME AnswerInv, [Next]_vars PROVE AnswerInv'
  OBVIOUS
<1>1. ASSUME NEW user \in Users \cup {NoUser},
             user \in {conn.user} \cup (IF conn.user = NoUser THEN Users ELSE {}), Refuse(user)
      PROVE  AnswerInv'
  BY <1>1, AnswerHttp
<1>2. CASE UNCHANGED vars
  BY <1>2 DEF vars, AnswerInv, Shape, DocsOwned, LookupOwned, Has, AnswersAreRequested
<1>3. QED
  BY <1>1, <1>2, AnswerHttp, AnswerPrograms, AnswerPanel DEF Next

\* ProcessReceived never redirects to, or serves from, anything but the stream
\* of the request, and that stream was in a list of the connection's user
\* while the request was handled.
THEOREM AlwaysAnswersRequested == Spec => []AnswersAreRequested
<1>1. AnswerInv => AnswersAreRequested
  BY DEF AnswerInv
<1>2. QED
  BY <1>1, AnswerInit, AnswerStep, PTL DEF Spec

-----------------------------------------------------------------------------
(***************************************************************************)
(* What is refused could not be answered at some time.                     *)
(***************************************************************************)

\* Whether a search succeeds does not depend on the directory.
LEMMA FindsWhereverItIs ==
  ASSUME NEW doc, NEW cid, NEW k \in Arrays, NEW here \in BOOLEAN, NEW there \in BOOLEAN,
         Find(k, doc, cid, here) = Fail
  PROVE  Find(k, doc, cid, there) = Fail
<1>1. Places(doc, cid) # {} => Url(doc, cid) # Fail
  BY DEF Url, Fail
<1>2. HttpRoot(doc, cid) # Fail => Places(doc, cid) # {}
  BY DEF HttpRoot
<1>3. Places(doc, cid) = {} => Url(doc, cid) = Fail
  BY DEF Url
<1>4. RootOrUrl(doc, cid, here) = Fail => RootOrUrl(doc, cid, there) = Fail
  BY <1>1, <1>2, <1>3 DEF RootOrUrl
<1>5. HttpRoot(doc, cid) # Fail => RootOrUrl(doc, cid, here) # Fail
  BY <1>1, <1>2 DEF RootOrUrl
<1>6. k = "streams" \/ k = "vods" \/ k = "catchups"
  BY DEF Arrays
<1>7. CASE doc.cls = None
  BY <1>7 DEF Find
<1>8. CASE doc.cls # None /\ k = "streams"
  BY <1>4, <1>5, <1>8 DEF Find, FindInStreams
<1>9. CASE doc.cls # None /\ k = "vods"
  BY <1>4, <1>5, <1>9 DEF Find, FindInVods
<1>10. CASE doc.cls # None /\ k = "catchups"
  BY <1>4, <1>10 DEF Find, FindInCatchups
<1>11. QED
  BY <1>6, <1>7, <1>8, <1>9, <1>10

ListsByKind ==
  \A u \in Users, k \in Arrays : lists[u][k] \subseteq {id \in Playable : ArrayOf(id) = k}

\* A request that could not be answered now is known to be refusable.
RefusalInv ==
  /\ ListsByKind
  /\ refusable \in BOOLEAN
  /\ conn.step = "found" => conn.array = ArrayOf(conn.sid)
  /\ Refusable => refusable
  /\ RefusedForCause

LEMMA RefusalHttp ==
  ASSUME AnswerInv, RefusalInv,
         \/ \E u \in Users, sid \in Playable, cid \in Cids : Receive(u, sid, cid)
         \/ \E user \in Users \cup {NoUser} : Refuse(user)
         \/ FindUser
         \/ \E onDisk \in BOOLEAN : FindStream(onDisk)
         \/ \E keepAlive \in BOOLEAN : Finish(keepAlive)
  PROVE  RefusalInv'
<1>1. UNCHANGED <<docs, lists>>
  BY DEF Receive, Refuse, FindUser, FindStream, Finish
<1>2. ListsByKind'
  BY <1>1 DEF RefusalInv, ListsByKind
<1>3. conn \in Conns /\ lists \in [Users -> [Arrays -> SUBSET Ids]]
  BY DEF AnswerInv, Shape
<1>4. conn.step \in {"asked", "found"} =>
        /\ conn.user \in Users /\ conn.sid \in Playable
        /\ ArrayOf(conn.sid) \in Arrays
  BY DEF AnswerInv, LookupOwned, Playable, ArrayOf, Arrays
<1>5. refusable \in BOOLEAN /\ (Refusable => refusable)
  BY DEF RefusalInv
<1>6. ASSUME NEW u \in Users, NEW sid \in Playable, NEW cid \in Cids, Receive(u, sid, cid)
      PROVE  RefusalInv'
  <2>1. conn'.step = "asked"
    BY <1>3, <1>6 DEF Receive, Conns
  <2>2. refusable' = Refusable'
    BY <1>6 DEF Receive
  <2>3. refusable' \in BOOLEAN
    BY <2>2 DEF Refusable
  <2>4. QED
    BY <1>2, <2>1, <2>2, <2>3 DEF RefusalInv, RefusedForCause
<1>7. ASSUME NEW user \in Users \cup {NoUser}, Refuse(user) PROVE RefusalInv'
  <2>1. conn'.step = "answered" /\ conn'.sid = None /\ refusable' = FALSE
    BY <1>3, <1>7 DEF Refuse, Conns
  <2>2. QED
    BY <1>2, <2>1 DEF RefusalInv, RefusedForCause, Refusable
<1>8. CASE FindUser
  <2>1. conn.step = "asked" /\ refusable' = refusable
    BY <1>8 DEF FindUser
  <2>2. CASE conn.sid \notin Has(conn.user)
    <3>1. conn' = [conn EXCEPT !.step = "answered", !.answer = Fail]
      <4>1. \A i \in DOMAIN SearchOrder : conn.sid \notin lists[conn.user][SearchOrder[i]]
        BY <2>2 DEF Has, SearchOrder, Arrays
      <4>2. QED
        BY <1>8, <4>1 DEF FindUser
    <3>2. Refusable
      BY <1>4, <2>1, <2>2 DEF Refusable, Has
    <3>3. conn'.step = "answered"
      BY <1>3, <3>1 DEF Conns
    <3>4. QED
      BY <1>2, <1>5, <2>1, <3>2, <3>3 DEF RefusalInv, RefusedForCause, Refusable
  <2>3. CASE conn.sid \in Has(conn.user)
    <3>1. PICK i \in DOMAIN SearchOrder :
            /\ conn.sid \in lists[conn.user][SearchOrder[i]]
            /\ conn' = [conn EXCEPT !.step = "found", !.array = SearchOrder[i]]
      BY <1>8, <2>3 DEF FindUser
    <3>2. SearchOrder[i] \in Arrays
      BY DEF SearchOrder, Arrays
    <3>3. ArrayOf(conn.sid) = SearchOrder[i]
      BY <1>4, <2>1, <3>1, <3>2 DEF RefusalInv, ListsByKind
    <3>4. /\ conn'.step = "found" /\ conn'.sid = conn.sid /\ conn'.user = conn.user
          /\ conn'.cid = conn.cid /\ conn'.array = SearchOrder[i]
      BY <1>3, <3>1 DEF Conns
    <3>5. Refusable' => Refusable
      BY <1>1, <2>1, <3>4 DEF Refusable
    <3>6. QED
      BY <1>2, <1>5, <2>1, <3>3, <3>4, <3>5 DEF RefusalInv, RefusedForCause
  <2>4. QED
    BY <2>2, <2>3
<1>9. ASSUME NEW onDisk \in BOOLEAN, FindStream(onDisk) PROVE RefusalInv'
  <2>1. /\ conn.step = "found" /\ refusable' = refusable
        /\ conn' = [conn EXCEPT !.step = "answered",
                      !.answer = IF docs[conn.sid] = None THEN Fail
                                 ELSE Find(conn.array, docs[conn.sid], conn.cid, onDisk)]
    BY <1>9 DEF FindStream
  <2>2. conn.array = ArrayOf(conn.sid)
    BY <2>1 DEF RefusalInv
  <2>3. /\ conn'.step = "answered"
        /\ conn'.answer = IF docs[conn.sid] = None THEN Fail
                          ELSE Find(ArrayOf(conn.sid), docs[conn.sid], conn.cid, onDisk)
    BY <1>3, <2>1, <2>2 DEF Conns
  <2>4. conn'.answer = Fail => Refusable
    BY <1>4, <2>1, <2>3, FindsWhereverItIs DEF Refusable
  <2>5. QED
    BY <1>2, <1>5, <2>1, <2>3, <2>4 DEF RefusalInv, RefusedForCause, Refusable
<1>10. ASSUME NEW keepAlive \in BOOLEAN, Finish(keepAlive) PROVE RefusalInv'
  <2>1. conn'.step = "ready" /\ refusable' = FALSE
    BY <1>10 DEF Finish, Fresh
  <2>2. QED
    BY <1>2, <2>1 DEF RefusalInv, RefusedForCause, Refusable
<1>11. QED
  BY <1>6, <1>7, <1>8, <1>9, <1>10

\* What the other writers do is taken into account as they do it.
LEMMA RefusalWriters ==
  ASSUME AnswerInv, RefusalInv,
         \/ \E u \in Users, sid, id \in Ids : CreateCatchup(u, sid, id)
         \/ \E id \in Ids : CreateRequestContent(id) \/ CountView(id)
         \/ Panel
  PROVE  RefusalInv'
<1>1. conn' = conn /\ refusable' = (refusable \/ Refusable')
  BY DEF CreateCatchup, CreateRequestContent, CountView, Panel
<1>2. lists \in [Users -> [Arrays -> SUBSET Ids]]
  BY DEF AnswerInv, Shape
<1>3. \A u \in Users, k \in Arrays : \A id \in lists'[u][k] \ lists[u][k] :
        id \in Playable /\ ArrayOf(id) = k
  <2>1. ASSUME NEW w \in Users, NEW sid \in Ids, NEW c \in Ids, CreateCatchup(w, sid, c)
        PROVE  \A u \in Users, k \in Arrays : \A id \in lists'[u][k] \ lists[u][k] :
                 id \in Playable /\ ArrayOf(id) = k
    <3>1. lists' = [lists EXCEPT ![w]["catchups"] = @ \cup {c}]
      BY <2>1 DEF CreateCatchup
    <3>2. c \in Playable /\ ArrayOf(c) = "catchups"
      BY <2>1 DEF CreateCatchup, Playable, ArrayOf
    <3>3. QED
      BY <1>2, <3>1, <3>2 DEF Arrays
  <2>2. ASSUME NEW w \in Users, NEW c \in Playable, PanelLists(w, c)
        PROVE  \A u \in Users, k \in Arrays : \A id \in lists'[u][k] \ lists[u][k] :
                 id \in Playable /\ ArrayOf(id) = k
    <3>1. lists' = [lists EXCEPT ![w][ArrayOf(c)] = @ \cup {c}]
      BY <2>2 DEF PanelLists
    <3>2. QED
      BY <1>2, <3>1
  <2>3. ASSUME NEW w \in Users, NEW c \in Playable, PanelUnlists(w, c)
        PROVE  \A u \in Users, k \in Arrays : lists'[u][k] \subseteq lists[u][k]
    <3>1. lists' = [lists EXCEPT ![w][ArrayOf(c)] = @ \ {c}]
      BY <2>3 DEF PanelUnlists
    <3>2. QED
      BY <1>2, <3>1
  <2>4. CASE UNCHANGED lists
    BY <2>4
  <2>5. QED
    BY <2>1, <2>2, <2>3, <2>4
    DEF CreateRequestContent, CountView, Panel, PanelDeletes, PanelWrites
<1>4. ListsByKind'
  BY <1>3 DEF RefusalInv, ListsByKind
<1>5. refusable' \in BOOLEAN /\ (Refusable' => refusable') /\ (refusable => refusable')
  BY <1>1 DEF RefusalInv, Refusable
<1>6. QED
  BY <1>1, <1>4, <1>5 DEF RefusalInv, RefusedForCause

LEMMA RefusalInit == Init => RefusalInv
<1> SUFFICES ASSUME Init PROVE RefusalInv
  OBVIOUS
<1>1. conn.step = "ready" /\ refusable = FALSE
  BY DEF Init, Fresh
<1>2. PICK earlier \in SUBSET Users :
        lists = [u \in Users |-> [k \in Arrays |->
                   IF u \in earlier THEN {id \in Given : ArrayOf(id) = k} ELSE {}]]
  BY DEF Init
<1>3. ListsByKind
  BY <1>2 DEF ListsByKind, Given
<1>4. QED
  BY <1>1, <1>3 DEF RefusalInv, RefusedForCause, Refusable

LEMMA RefusalStep == AnswerInv /\ RefusalInv /\ [Next]_vars => RefusalInv'
<1> SUFFICES ASSUME AnswerInv, RefusalInv, [Next]_vars PROVE RefusalInv'
  OBVIOUS
<1>1. ASSUME NEW user \in Users \cup {NoUser}, Refuse(user) PROVE RefusalInv'
  BY <1>1, RefusalHttp
<1>2. CASE UNCHANGED vars
  BY <1>2 DEF vars, RefusalInv, ListsByKind, Refusable, RefusedForCause
<1>3. QED
  BY <1>1, <1>2, RefusalHttp, RefusalWriters DEF Next

\* ProcessReceived refuses no request for a stream that its user had listed,
\* and that could be played, all the time the request was handled.
THEOREM AlwaysRefusedForCause == Spec => []RefusedForCause
<1>1. RefusalInv => RefusedForCause
  BY DEF RefusalInv
<1>2. QED
  BY <1>1, AnswerInit, AnswerStep, RefusalInit, RefusalStep, PTL DEF Spec

-----------------------------------------------------------------------------
(***************************************************************************)
(* Complete documents stay readable.                                       *)
(***************************************************************************)

Sound(kind, doc) == WellTyped(doc, Join(Counted(kind), Typed(kind)))

WholeInv ==
  /\ docs = [id \in Ids |-> docs[id]]
  /\ \A id \in whole :
       /\ id \in Ids
       /\ docs[id].views \in Nat
       /\ Whole(KindOf[id], docs[id])
       /\ docs[id].views <= MaxInt32 => Sound(KindOf[id], docs[id])

LEMMA WholeLacksNothing ==
  ASSUME NEW kind, NEW doc, Whole(kind, doc)
  PROVE  Lacks(doc, Counted(kind)) = 0
<1>1. DOMAIN Counted(kind) \ DOMAIN doc.holds = {}
  BY DEF Whole
<1>2. QED
  BY <1>1, FS_EmptySet DEF Lacks

\* Complete and of the right types is what the readers ask for.
LEMMA SoundIsRead ==
  ASSUME NEW kind \in Kinds, NEW doc, Whole(kind, doc), Sound(kind, doc)
  PROVE  Reads(kind, doc)
<1>1. Lacks(doc, Counted(kind)) = 0
  BY WholeLacksNothing
<1>2. CASE kind = "channel"
  BY <1>1, <1>2 DEF Sound, Counted, Typed, Reads, MakeChannelInfo
<1>3. CASE kind = "vod"
  BY <1>1, <1>3 DEF Sound, Counted, Typed, Reads, MakeVodInfo
<1>4. CASE kind = "catchup"
  BY <1>1, <1>4 DEF Sound, Counted, Typed, Reads, MakeCatchupInfo
<1>5. CASE kind = "serial"
  BY <1>1, <1>5 DEF Sound, Counted, Typed, Reads, MakeSerialInfo
<1>6. CASE kind = "request"
  <2>1. DOMAIN Join(RequestFields, <<>>) = DOMAIN RequestFields
    BY DEF Join
  <2>2. \A f \in DOMAIN RequestFields : Join(RequestFields, <<>>)[f] = RequestFields[f]
    BY DEF Join
  <2>3. WellTyped(doc, RequestFields)
    BY <1>6, <2>1, <2>2 DEF Sound, Counted, Typed, WellTyped
  <2>4. QED
    BY <1>1, <1>6, <2>3 DEF Counted, Reads, MakeContentRequestInfo
<1>7. QED
  BY <1>2, <1>3, <1>4, <1>5, <1>6 DEF Kinds

LEMMA CatchupSound ==
  ASSUME NEW id, NEW channel
  PROVE  /\ Whole("catchup", CatchupDoc(id, channel))
         /\ Sound("catchup", CatchupDoc(id, channel))
         /\ CatchupDoc(id, channel).views = 0
<1> DEFINE extra == [parts |-> "array", visible |-> "bool", input |-> "array"]
           holds == Join(CatchupFields, extra)
           known == Join(CatchupFields, StreamExtras)
<1>1. CatchupDoc(id, channel).holds = holds /\ CatchupDoc(id, channel).views = 0
  BY DEF CatchupDoc
<1>2. DOMAIN CatchupFields \subseteq DOMAIN holds
  BY DEF Join
<1>3. \A f \in DOMAIN holds \cap DOMAIN known : holds[f] = known[f]
  <2>1. \A f \in DOMAIN extra \cap DOMAIN StreamExtras : extra[f] = StreamExtras[f]
    BY DEF StreamExtras
  <2>2. QED
    BY <2>1 DEF Join
<1>4. Counted("catchup") = CatchupFields /\ Typed("catchup") = StreamExtras
  BY DEF Counted, Typed
<1>5. QED
  BY <1>1, <1>2, <1>3, <1>4 DEF Whole, Sound, WellTyped

LEMMA RequestSound ==
  /\ Whole("request", RequestDoc) /\ Sound("request", RequestDoc)
  /\ RequestDoc.views = 0
<1>1. RequestDoc.holds = RequestFields /\ RequestDoc.views = 0
  BY DEF RequestDoc
<1>2. Counted("request") = RequestFields /\ Typed("request") = <<>>
  BY DEF Counted, Typed
<1>3. \A f \in DOMAIN RequestFields : Join(RequestFields, <<>>)[f] = RequestFields[f]
  BY DEF Join
<1>4. QED
  BY <1>1, <1>2, <1>3 DEF Whole, Sound, WellTyped

\* Every kind that counts views counts them in an int32.
LEMMA ViewsTyped ==
  ASSUME NEW kind \in {"channel", "vod", "catchup"}
  PROVE  /\ "view_count" \in DOMAIN Counted(kind)
         /\ Join(Counted(kind), Typed(kind))["view_count"] = "int32"
<1>1. "view_count" \in DOMAIN Common /\ Common["view_count"] = "int32"
  BY DEF Common
<1>2. \A g : /\ "view_count" \in DOMAIN Join(Common, g)
             /\ Join(Common, g)["view_count"] = "int32"
  BY <1>1 DEF Join
<1>3. /\ "view_count" \in DOMAIN Counted(kind)
      /\ Counted(kind)["view_count"] = "int32"
  BY <1>2 DEF Counted, ChannelFields, VodFields, CatchupFields
<1>4. QED
  BY <1>3 DEF Join

LEMMA IncrementSound ==
  ASSUME NEW kind \in {"channel", "vod", "catchup"}, NEW doc,
         doc.views \in Nat, doc.views <= MaxInt32, Whole(kind, doc), Sound(kind, doc)
  PROVE  /\ Increment(doc).views \in Nat
         /\ Whole(kind, Increment(doc))
         /\ Increment(doc).views <= MaxInt32 => Sound(kind, Increment(doc))
<1> DEFINE views == IF "view_count" \in DOMAIN doc.holds THEN doc.views + 1 ELSE 1
           type == IF views <= MaxInt32 THEN "int32" ELSE "int64"
           holds == Join([view_count |-> type], doc.holds)
           known == Join(Counted(kind), Typed(kind))
<1>1. Increment(doc).views = views /\ Increment(doc).holds = holds
  BY DEF Increment
<1>2. "view_count" \in DOMAIN doc.holds
  BY ViewsTyped DEF Whole
<1>3. views = doc.views + 1
  BY <1>2
<1>4. DOMAIN holds = DOMAIN doc.holds
  BY <1>2 DEF Join
<1>5. ASSUME views <= MaxInt32 PROVE \A f \in DOMAIN holds \cap DOMAIN known : holds[f] = known[f]
  <2>1. holds["view_count"] = "int32" /\ known["view_count"] = "int32"
    BY <1>5, ViewsTyped DEF Join
  <2>2. \A f \in DOMAIN doc.holds : f # "view_count" => holds[f] = doc.holds[f]
    BY DEF Join
  <2>3. \A f \in DOMAIN doc.holds \cap DOMAIN known : doc.holds[f] = known[f]
    BY DEF Sound, WellTyped
  <2>4. QED
    BY <1>4, <2>1, <2>2, <2>3
<1> HIDE DEF views, holds, known
<1>6. Increment(doc).views \in Nat /\ Whole(kind, Increment(doc))
  BY <1>1, <1>3, <1>4 DEF Whole
<1>7. ASSUME Increment(doc).views <= MaxInt32 PROVE Sound(kind, Increment(doc))
  BY <1>1, <1>5, <1>7 DEF Sound, WellTyped, known
<1>8. QED
  BY <1>6, <1>7

LEMMA WholeStep == WholeInv /\ [Next]_vars => WholeInv'
<1> SUFFICES ASSUME WholeInv, [Next]_vars PROVE WholeInv'
  OBVIOUS
<1> USE PlaybackAssumption DEF WholeInv
<1>1. ASSUME UNCHANGED <<docs, whole>> PROVE WholeInv'
  BY <1>1
\* A document is replaced, and is complete and sound if it counts as whole.
<1>2. ASSUME NEW id \in Ids, NEW doc,
             docs' = [docs EXCEPT ![id] = doc], whole' \subseteq whole \cup {id},
             id \in whole' => /\ doc.views \in Nat /\ Whole(KindOf[id], doc)
                              /\ doc.views <= MaxInt32 => Sound(KindOf[id], doc)
      PROVE  WholeInv'
  BY <1>2
<1>3. ASSUME NEW u \in Users, NEW sid \in Ids, NEW id \in Ids, CreateCatchup(u, sid, id)
      PROVE  WholeInv'
  <2>1. /\ KindOf[id] = "catchup" /\ whole' = whole \cup {id}
        /\ docs' = [docs EXCEPT ![id] = CatchupDoc(id, docs[sid])]
    BY <1>3 DEF CreateCatchup
  <2>2. QED
    BY <1>2, <2>1, CatchupSound
<1>4. ASSUME NEW id \in Ids, CreateRequestContent(id) PROVE WholeInv'
  <2>1. /\ KindOf[id] = "request" /\ whole' = whole \cup {id}
        /\ docs' = [docs EXCEPT ![id] = RequestDoc]
    BY <1>4 DEF CreateRequestContent
  <2>2. QED
    BY <1>2, <2>1, RequestSound
<1>5. ASSUME NEW id \in Ids, CountView(id) PROVE WholeInv'
  <2>1. /\ KindOf[id] \in {"channel", "vod", "catchup"} /\ whole' = whole
        /\ docs[id].views <= MaxInt32
        /\ docs' = [docs EXCEPT ![id] = Increment(docs[id])]
    BY <1>5 DEF CountView
  <2>2. QED
    BY <1>2, <2>1, IncrementSound
<1>6. ASSUME NEW id \in Ids, NEW doc \in PanelDocs[id], PanelWrites(id, doc) PROVE WholeInv'
  <2>1. /\ docs' = [docs EXCEPT ![id] = doc]
        /\ whole' = IF Whole(KindOf[id], doc) THEN whole \cup {id} ELSE whole \ {id}
    BY <1>6 DEF PanelWrites
  <2>2. /\ doc.views \in Nat
        /\ Whole(KindOf[id], doc) => Sound(KindOf[id], doc)
    BY PanelAssumption DEF Sound
  <2>3. QED
    BY <1>2, <2>1, <2>2
<1>7. ASSUME NEW id \in Ids, PanelDeletes(id) PROVE WholeInv'
  BY <1>2, <1>7 DEF PanelDeletes
<1>8. CASE Panel
  BY <1>1, <1>6, <1>7, <1>8 DEF Panel, PanelLists, PanelUnlists
<1>9. ASSUME \/ \E u \in Users, sid \in Playable, cid \in Cids : Receive(u, sid, cid)
             \/ \E user : Refuse(user)
             \/ FindUser
             \/ \E onDisk \in BOOLEAN : FindStream(onDisk)
             \/ \E keepAlive \in BOOLEAN : Finish(keepAlive)
             \/ UNCHANGED vars
      PROVE  WholeInv'
  BY <1>1, <1>9 DEF Receive, Refuse, FindUser, FindStream, Finish, vars
<1>10. QED
  BY <1>3, <1>4, <1>5, <1>8, <1>9 DEF Next

\* The readers, which count fields and give up at a wrong type, keep reading
\* what was once complete, however often SetRecent counts a view of it, as
\* long as the count fits the type they ask for.
THEOREM WholeAlwaysReadable == Spec => []WholeStaysReadable
<1>1. Init => WholeInv
  <2> SUFFICES ASSUME Init PROVE WholeInv
    OBVIOUS
  <2>1. docs = [id \in Ids |-> docs[id]] /\ \A id \in Ids : docs[id] \in PanelDocs[id] \cup {None}
    BY DEF Init
  <2>2. whole = {id \in Ids : docs[id] # None /\ Whole(KindOf[id], docs[id])}
    BY DEF Init
  <2>3. QED
    BY <2>1, <2>2, PlaybackAssumption, PanelAssumption DEF WholeInv, Sound
<1>2. WholeInv => WholeStaysReadable
  BY SoundIsRead, PlaybackAssumption DEF WholeInv, WholeStaysReadable
<1>3. QED
  BY <1>1, <1>2, WholeStep, PTL DEF Spec

-----------------------------------------------------------------------------
(***************************************************************************)
(* The types.                                                              *)
(***************************************************************************)

\* The types of a document's fields, and how far its views were counted.
DocTypes(doc) ==
  /\ \A f \in DOMAIN doc.holds : doc.holds[f] \in Types
  /\ doc.views \in 0..(MaxInt32 + 1)

TypeInv ==
  /\ \A id \in Ids : docs[id] # None => DocTypes(docs[id])
  /\ lists \in [Users -> [Arrays -> SUBSET Playable]]
  /\ writes \in 0..MaxWrites
  /\ owned \subseteq Playable /\ whole \subseteq Ids

\* Joined fields have the types of the one or the other.
LEMMA JoinTypes ==
  ASSUME NEW f, NEW g,
         \A x \in DOMAIN f : f[x] \in Types, \A x \in DOMAIN g : g[x] \in Types
  PROVE  \A x \in DOMAIN Join(f, g) : Join(f, g)[x] \in Types
BY DEF Join

\* CreateOrFindCatchup and CreateRequestContent write fields of these types.
LEMMA CatchupTypes ==
  ASSUME NEW id, NEW channel PROVE DocTypes(CatchupDoc(id, channel))
<1> DEFINE times == [tvg_id |-> "utf8", start |-> "date", stop |-> "date"]
           extra == [parts |-> "array", visible |-> "bool", input |-> "array"]
<1>1. /\ \A x \in DOMAIN Common : Common[x] \in Types
      /\ \A x \in DOMAIN times : times[x] \in Types
      /\ \A x \in DOMAIN extra : extra[x] \in Types
  BY DEF Common, Types
<1>2. CatchupFields = Join(Common, times)
  BY DEF CatchupFields
<1>3. /\ CatchupDoc(id, channel).holds = Join(CatchupFields, extra)
      /\ CatchupDoc(id, channel).views = 0
  BY DEF CatchupDoc
<1> HIDE DEF times, extra
<1>4. \A x \in DOMAIN CatchupFields : CatchupFields[x] \in Types
  BY <1>1, <1>2, JoinTypes
<1>5. \A x \in DOMAIN Join(CatchupFields, extra) : Join(CatchupFields, extra)[x] \in Types
  BY <1>1, <1>4, JoinTypes
<1> QED
  BY <1>3, <1>5, PlaybackAssumption DEF DocTypes

LEMMA RequestTypes == DocTypes(RequestDoc)
  BY PlaybackAssumption DEF DocTypes, RequestDoc, RequestFields, Types

\* A count that leaves the int32 is the last that is made.
LEMMA IncrementTypes ==
  ASSUME NEW doc, DocTypes(doc), doc.views <= MaxInt32
  PROVE  DocTypes(Increment(doc))
<1> DEFINE views == IF "view_count" \in DOMAIN doc.holds THEN doc.views + 1 ELSE 1
           count == [view_count |-> IF views <= MaxInt32 THEN "int32" ELSE "int64"]
<1>1. \A x \in DOMAIN count : count[x] \in Types
  BY DEF Types
<1>2. views \in 0..(MaxInt32 + 1)
  BY PlaybackAssumption DEF DocTypes
<1>3. Increment(doc).holds = Join(count, doc.holds) /\ Increment(doc).views = views
  BY DEF Increment
<1> HIDE DEF views, count
<1> QED
  BY <1>1, <1>2, <1>3, JoinTypes DEF DocTypes

\* What a user's lists hold can be played.
LEMMA HasPlayable ==
  ASSUME lists \in [Users -> [Arrays -> SUBSET Playable]], NEW u \in Users
  PROVE  Has(u) \subseteq Playable
BY DEF Has

LEMMA TypeInit == Init => TypeInv
<1> SUFFICES ASSUME Init PROVE TypeInv
  OBVIOUS
<1>1. \A id \in Ids : docs[id] \in PanelDocs[id] \cup {None}
  BY DEF Init
<1>2. ASSUME NEW id \in Ids, NEW doc \in PanelDocs[id] PROVE DocTypes(doc)
  BY PanelAssumption, PlaybackAssumption DEF DocTypes
<1>3. lists \in [Users -> [Arrays -> SUBSET Playable]]
  BY DEF Init, Given
<1> QED
  BY <1>1, <1>2, <1>3, PlaybackAssumption DEF Init, TypeInv

LEMMA TypeStep == AnswerInv /\ TypeInv /\ [Next]_vars => TypeInv'
<1> SUFFICES ASSUME AnswerInv, TypeInv, [Next]_vars PROVE TypeInv'
  OBVIOUS
<1>0. docs = [id \in Ids |-> docs[id]] /\ conn \in Conns /\ LookupOwned
  BY DEF AnswerInv, Shape
<1> USE DEF TypeInv
\* A document is replaced.
<1>a. ASSUME NEW id \in Ids, NEW doc, DocTypes(doc) \/ doc = None,
             docs' = [docs EXCEPT ![id] = doc]
      PROVE  \A i \in Ids : docs'[i] # None => DocTypes(docs'[i])
  BY <1>a, <1>0
<1>1. ASSUME NEW u \in Users, NEW sid \in Playable, NEW cid \in Cids, Receive(u, sid, cid)
      PROVE  TypeInv'
  <2>1. LoginOf(u) \in Users
    BY <1>0 DEF LoginOf, Conns
  <2> QED BY <1>1, <2>1, HasPlayable DEF Receive
<1>2. ASSUME NEW user, Refuse(user) PROVE TypeInv'
  BY <1>2 DEF Refuse
<1>3. ASSUME \/ FindUser
             \/ \E onDisk \in BOOLEAN : FindStream(onDisk)
             \/ \E keepAlive \in BOOLEAN : Finish(keepAlive)
      PROVE  TypeInv'
  BY <1>3 DEF FindUser, FindStream, Finish
<1>4. ASSUME NEW u \in Users, NEW sid \in Ids, NEW id \in Ids, CreateCatchup(u, sid, id)
      PROVE  TypeInv'
  <2>1. id \in Playable /\ whole' = whole \cup {id} /\ writes' = writes
    BY <1>4 DEF CreateCatchup, Playable
  <2>2. \A i \in Ids : docs'[i] # None => DocTypes(docs'[i])
    BY <1>4, <1>a, CatchupTypes DEF CreateCatchup
  <2>3. lists' \in [Users -> [Arrays -> SUBSET Playable]]
    BY <1>4, <2>1 DEF CreateCatchup, Arrays
  <2>4. owned' \subseteq Playable
    BY <1>4, <2>1 DEF CreateCatchup
  <2> QED BY <2>1, <2>2, <2>3, <2>4
<1>5. ASSUME NEW id \in Ids, CreateRequestContent(id) PROVE TypeInv'
  <2>1. \A i \in Ids : docs'[i] # None => DocTypes(docs'[i])
    BY <1>5, <1>a, RequestTypes DEF CreateRequestContent
  <2> QED BY <1>5, <2>1 DEF CreateRequestContent
<1>6. ASSUME NEW id \in Ids, CountView(id) PROVE TypeInv'
  <2>1. /\ docs[id] # None /\ docs[id].views <= MaxInt32
        /\ docs' = [docs EXCEPT ![id] = Increment(docs[id])]
    BY <1>6 DEF CountView
  <2>2. \A i \in Ids : docs'[i] # None => DocTypes(docs'[i])
    BY <1>a, <2>1, IncrementTypes
  <2> QED BY <1>6, <2>2 DEF CountView
<1>7. CASE Panel
  <2>1. writes' \in 0..MaxWrites
    BY <1>7, PlaybackAssumption DEF Panel
  <2>2. ASSUME NEW id \in Ids, PanelDeletes(id) PROVE TypeInv'
    BY <1>a, <2>1, <2>2 DEF PanelDeletes
  <2>3. ASSUME NEW id \in Ids, NEW doc \in PanelDocs[id], PanelWrites(id, doc) PROVE TypeInv'
    <3>1. DocTypes(doc)
      BY PanelAssumption, PlaybackAssumption DEF DocTypes
    <3> QED BY <1>a, <2>1, <2>3, <3>1 DEF PanelWrites
  <2>4. ASSUME NEW u \in Users, NEW id \in Playable, PanelLists(u, id) \/ PanelUnlists(u, id)
        PROVE  TypeInv'
    <3>1. lists' \in [Users -> [Arrays -> SUBSET Playable]]
      BY <2>4 DEF PanelLists, PanelUnlists
    <3>2. owned' \subseteq Playable /\ UNCHANGED <<docs, whole>>
      BY <2>4 DEF PanelLists, PanelUnlists
    <3> QED BY <2>1, <3>1, <3>2
  <2> QED BY <1>7, <2>2, <2>3, <2>4 DEF Panel
<1>8. CASE UNCHANGED vars
  BY <1>8 DEF vars
<1> QED
  BY <1>1, <1>2, <1>3, <1>4, <1>5, <1>6, <1>7, <1>8 DEF Next

\* Documents, lists and the connection keep their shapes, whatever is read,
\* created, counted or edited; in particular every answer is an error or names
\* a document of the database.
THEOREM TypeCorrect == Spec => []TypeOK
<1>1. AnswerInv /\ RefusalInv /\ TypeInv => TypeOK
  BY DEF AnswerInv, Shape, Conns, Answers, RefusalInv, TypeInv, DocTypes, TypeOK
<1> QED
  BY <1>1, AnswerInit, AnswerStep, RefusalInit, RefusalStep, TypeInit, TypeStep, PTL DEF Spec

=============================================================================
