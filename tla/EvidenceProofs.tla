--------------------------- MODULE EvidenceProofs ---------------------------
(***************************************************************************)
(* Proofs about Evidence, for any number of panels and calls, any contents *)
(* and any number of faults.  What makes them work is who may use a key:   *)
(* one page at a time, which puts the object before anything else knows    *)
(* the key, and after that the calls of that page.  What else is put there *)
(* comes on top: what a call has hashed and a row names stays where it is. *)
(***************************************************************************)
EXTENDS Evidence, FiniteSetTheorems, TLAPS

Keys == 1..Len(store)

\* Nothing but the page that it was handed to knows the key.
Unknown(k) ==
  /\ \A c \in Calls : call[c].at # "idle" => call[c].key # k
  /\ \A i \in DOMAIN files : files[i].key # k

\* Who registers, or has registered, the object of a key is p.
Owns(p, k) ==
  /\ \A c \in Calls : call[c].at # "idle" /\ call[c].key = k => call[c].by = p
  /\ \A i \in DOMAIN files : files[i].key = k => files[i].by = p

\* What the submission put under k, if it did, is f.
FromPanel(k, f) == \A v \in DOMAIN store[k] : store[k][v].panel => store[k][v].file = f

\* Content f was read back under k as its put number v, or saved there.
HashStands(k, v, f) ==
  /\ v \in DOMAIN store[k] /\ store[k][v].file = f
  /\ mode = "server" => v = Len(store[k])

\* The key of a page with a submission, where it has one.
KeyStands(p) ==
  mode = "direct" /\ page[p].at # "idle" =>
    /\ page[p].key \in Keys
    /\ FromPanel(page[p].key, page[p].file)
    /\ Owns(p, page[p].key)
    /\ page[p].at = "planned" => Unknown(page[p].key)

\* The call that a page waits for is its own.
WaitStands(p) ==
  page[p].at = "waiting" =>
    /\ page[p].call \in Calls
    /\ call[page[p].call].at # "idle"
    /\ call[page[p].call].by = p
    /\ mode = "direct" => call[page[p].call].key = page[p].key
    /\ mode = "server" => call[page[p].call].file = page[p].file

PageStands(p) ==
  /\ page[p].at # "idle" => page[p].file \in Contents
  /\ page[p].at = "waiting" <=> page[p].call # None
  /\ KeyStands(p)
  /\ WaitStands(p)

KeysApart ==
  \A p, q \in Pages :
    mode = "direct" /\ p # q /\ page[p].at # "idle" /\ page[q].at # "idle"
      => page[p].key # page[q].key

\* No row that a call has looked past has its key.
NoRowIn(n, k) == n \in 0..Len(files) /\ \A i \in 1..n : files[i].key # k

CallStands(c) ==
  call[c].at # "idle" =>
    /\ call[c].by \in Pages
    /\ call[c].at = "looked" => mode = "direct"
    /\ mode = "direct" => call[c].key \in Keys
    /\ mode = "server" => call[c].file \in Contents
    /\ call[c].at \in {"looked", "hashed"} => NoRowIn(call[c].seen, call[c].key)
    /\ call[c].at = "hashed" =>
         /\ call[c].key \in Keys /\ call[c].file \in Contents
         /\ HashStands(call[c].key, call[c].version, call[c].file)

RowStands(i) ==
  files[i].key \in Keys /\ HashStands(files[i].key, files[i].version, files[i].sha)

IInv ==
  /\ TypeOK
  /\ \A p \in Pages : PageStands(p)
  /\ KeysApart
  /\ \A c \in Calls : CallStands(c)
  /\ \A i \in DOMAIN files : RowStands(i)
  /\ events = Len(files)
  /\ AnsweredIsRecorded
  /\ OneRecordPerObject

-----------------------------------------------------------------------------
LEMMA Tables ==
  ASSUME IInv
  PROVE  /\ Len(store) \in Nat /\ DOMAIN store = Keys
         /\ Len(files) \in Nat /\ DOMAIN files = 1..Len(files)
         /\ \A i \in DOMAIN files : files[i] \in Row
         /\ \A p \in Pages : page[p] \in Page
         /\ \A c \in Calls : call[c] \in Call
  BY DEF IInv, TypeOK, Keys

LEMMA IdleTypes ==
  /\ IdlePage \in Page /\ IdlePage.at = "idle" /\ IdlePage.call = None
  /\ IdleCall \in Call /\ IdleCall.at = "idle"
  BY DEF IdlePage, Page, IdleCall, Call

\* What is under the keys of before stays where it is.
Grown ==
  /\ store' \in Seq(Seq(Put))
  /\ Keys \subseteq Keys'
  /\ \A k \in Keys :
       /\ \A v \in DOMAIN store[k] : v \in DOMAIN store'[k] /\ store'[k][v] = store[k][v]
       /\ mode = "server" => Len(store'[k]) = Len(store[k])

LEMMA RowsOutlast ==
  ASSUME IInv, Grown, UNCHANGED <<mode, files, acked>>
  PROVE  AnsweredIsRecorded' /\ \A i \in DOMAIN files' : RowStands(i)'
<1>1. ASSUME NEW i \in DOMAIN files
      PROVE  RowStands(i)' /\ Hashed(files[i])' = Hashed(files[i])
  <2>1. RowStands(i)
    BY DEF IInv
  <2> QED BY <2>1 DEF RowStands, HashStands, Hashed, Grown
<1>2. AnsweredIsRecorded'
  <2> SUFFICES ASSUME NEW a \in acked
               PROVE  /\ a.row \in DOMAIN files /\ files[a.row].by = a.by
                      /\ Hashed(files[a.row])'.panel => files[a.row].sha = a.file
    BY DEF AnsweredIsRecorded, Hashed
  <2>1. /\ a.row \in DOMAIN files /\ files[a.row].by = a.by
        /\ Hashed(files[a.row]).panel => files[a.row].sha = a.file
    BY DEF IInv, AnsweredIsRecorded
  <2> QED BY <1>1, <2>1
<1> QED BY <1>1, <1>2

LEMMA CallOutlasts ==
  ASSUME IInv, Grown, UNCHANGED <<mode, files>>, NEW d \in Calls, call'[d] = call[d]
  PROVE  CallStands(d)'
<1>1. CallStands(d)
  BY DEF IInv
<1> QED BY <1>1 DEF CallStands, HashStands, NoRowIn, Grown

\* One more key.
LEMMA KeyAdded ==
  ASSUME IInv, NEW e \in Seq(Put), store' = Append(store, e)
  PROVE  /\ store' \in Seq(Seq(Put))
         /\ Len(store') = Len(store) + 1
         /\ store'[Len(store) + 1] = e
         /\ \A k \in Keys : store'[k] = store[k]
  BY Tables DEF IInv, TypeOK, Keys

\* One more put under a key.
LEMMA PutGrows ==
  ASSUME IInv, NEW k \in Keys, NEW f \in Contents, NEW panel \in BOOLEAN,
         mode = "direct", store' = Stored(k, f, panel)
  PROVE  /\ Grown /\ Keys' = Keys
         /\ \A l \in Keys \ {k} : store'[l] = store[l]
         /\ \A v \in DOMAIN store'[k] \ DOMAIN store[k] :
              store'[k][v] = [file |-> f, panel |-> panel]
<1> PICK o \in Put : o = [file |-> f, panel |-> panel]
  BY DEF Put
<1>1. store \in Seq(Seq(Put)) /\ k \in DOMAIN store /\ store[k] \in Seq(Put)
  BY Tables DEF IInv, TypeOK
<1> PICK was : was = store[k]
  OBVIOUS
<1>2. store' = [store EXCEPT ![k] = Append(was, o)]
  BY DEF Stored
<1>3. /\ Append(was, o) \in Seq(Put)
      /\ \A v \in DOMAIN was : v \in DOMAIN Append(was, o) /\ Append(was, o)[v] = was[v]
      /\ \A v \in DOMAIN Append(was, o) \ DOMAIN was : Append(was, o)[v] = o
  BY <1>1
<1>4. /\ store' \in Seq(Seq(Put)) /\ Len(store') = Len(store)
      /\ store'[k] = Append(was, o)
      /\ \A l \in Keys \ {k} : store'[l] = store[l]
  BY <1>1, <1>2, <1>3 DEF Keys
<1>5. Keys' = Keys
  BY <1>4 DEF Keys
<1>6. ASSUME NEW l \in Keys, NEW v \in DOMAIN store[l]
      PROVE  v \in DOMAIN store'[l] /\ store'[l][v] = store[l][v]
  BY <1>3, <1>4
<1>7. Grown
  BY <1>4, <1>5, <1>6 DEF Grown
<1> QED BY <1>3, <1>4, <1>5, <1>7

\* A submission gets a key that nobody has.
LEMMA Submitted ==
  ASSUME IInv, NEW p \in Pages, NEW f \in Contents, Submit(p, f)
  PROVE  IInv'
<1>1. /\ UNCHANGED <<mode, files, events, call, acked, faults>>
      /\ page[p].at \in {"idle", "lost"}
  BY DEF Submit, prepareUpload
<1>2. CASE mode = "direct"
  <2> PICK n \in Nat : n = Len(store) + 1
    BY Tables
  <2>1. /\ store' = Append(store, <<>>)
        /\ page' = [page EXCEPT ![p] = [at |-> "planned", file |-> f, key |-> n, call |-> None]]
    BY <1>2 DEF Submit, prepareUpload
  <2>2. /\ store' \in Seq(Seq(Put))
        /\ Keys' = 1..n
        /\ \A k \in Keys : store'[k] = store[k]
        /\ store'[n] = <<>>
    <3>1. <<>> \in Seq(Put)
      OBVIOUS
    <3> QED BY <2>1, <3>1, Tables DEF IInv, TypeOK, Keys
  <2>3. /\ page' \in [Pages -> Page]
        /\ page'[p] = [at |-> "planned", file |-> f, key |-> n, call |-> None]
        /\ \A q \in Pages \ {p} : page'[q] = page[q]
    BY <2>1 DEF IInv, TypeOK, Page
  <2>4. TypeOK'
    BY <1>1, <2>2, <2>3 DEF IInv, TypeOK
  <2>5. n \notin Keys /\ Keys \subseteq Keys'
    BY <2>2, Tables DEF Keys
  <2>6. Unknown(n)'
    BY <1>1, <1>2, <2>5 DEF Unknown, IInv, CallStands, HashStands, RowStands
  <2>7. ASSUME NEW q \in Pages PROVE PageStands(q)'
    <3>1. CASE q = p
      <4>1. Owns(p, n)'
        BY <2>6 DEF Unknown, Owns
      <4> QED BY <1>1, <1>2, <2>2, <2>3, <2>6, <3>1, <4>1 DEF PageStands, KeyStands, FromPanel, WaitStands
    <3>2. CASE q # p
      <4>1. PageStands(q) /\ page'[q] = page[q]
        BY <2>3, <3>2 DEF IInv
      <4> QED BY <1>1, <2>2, <2>5, <4>1
              DEF PageStands, KeyStands, FromPanel, WaitStands, Owns, Unknown
    <3> QED BY <3>1, <3>2
  <2>8. KeysApart'
    BY <1>1, <2>3, <2>5 DEF IInv, KeysApart, PageStands, KeyStands, FromPanel
  <2>9. Grown
    BY <2>2, <2>5 DEF Grown
  <2>10. \A c \in Calls : CallStands(c)'
    BY <1>1, <2>9, CallOutlasts
  <2> QED
    BY <1>1, <2>4, <2>7, <2>8, <2>9, <2>10, RowsOutlast DEF IInv, OneRecordPerObject
<1>3. CASE mode = "server"
  <2>1. /\ store' = store
        /\ page' = [page EXCEPT ![p] = [at |-> "planned", file |-> f, key |-> 0, call |-> None]]
    BY <1>3 DEF Submit, prepareUpload
  <2>2. /\ page' \in [Pages -> Page]
        /\ page'[p] = [at |-> "planned", file |-> f, key |-> 0, call |-> None]
        /\ \A q \in Pages \ {p} : page'[q] = page[q]
    BY <2>1 DEF IInv, TypeOK, Page
  <2>3. TypeOK'
    BY <1>1, <2>1, <2>2 DEF IInv, TypeOK
  <2>4. ASSUME NEW q \in Pages PROVE PageStands(q)'
    <3>1. CASE q = p
      BY <1>1, <1>3, <2>2, <3>1 DEF PageStands, KeyStands, FromPanel, WaitStands
    <3>2. CASE q # p
      <4>1. PageStands(q) /\ page'[q] = page[q]
        BY <2>2, <3>2 DEF IInv
      <4> QED BY <1>1, <1>3, <4>1 DEF PageStands, KeyStands, FromPanel, WaitStands
    <3> QED BY <3>1, <3>2
  <2>5. KeysApart'
    BY <1>1, <1>3 DEF KeysApart
  <2>6. \A c \in Calls : CallStands(c)'
    BY <1>1, <2>1 DEF IInv, CallStands, HashStands, NoRowIn, Keys
  <2> QED
    BY <1>1, <2>1, <2>3, <2>4, <2>5, <2>6
       DEF IInv, AnsweredIsRecorded, Hashed, OneRecordPerObject, RowStands, HashStands, Keys
<1> QED
  BY <1>2, <1>3 DEF IInv, TypeOK

\* The object is put under a key that nothing else knows yet.
LEMMA ObjectPut ==
  ASSUME IInv, NEW p \in Pages, PutObject(p)
  PROVE  IInv'
<1>1. PICK k, at :
        /\ k = page[p].key
        /\ at \in {"stored", "lost"}
        /\ store' \in {store, Stored(k, page[p].file, TRUE)}
        /\ page' = [page EXCEPT ![p].at = at]
        /\ faults' \in {faults, faults + 1}
  BY DEF PutObject
<1>2. /\ UNCHANGED <<mode, files, events, call, acked>>
      /\ mode = "direct"
      /\ page[p].at = "planned"
  BY DEF PutObject
<1>3. PageStands(p) /\ page[p] \in Page
  BY Tables DEF IInv
<1>4. /\ k \in Keys
      /\ Unknown(k)
      /\ FromPanel(k, page[p].file)
      /\ page[p].file \in Contents
      /\ page[p].call = None
  BY <1>1, <1>2, <1>3 DEF PageStands, KeyStands
<1>5. /\ Grown /\ Keys' = Keys
      /\ \A l \in Keys \ {k} : store'[l] = store[l]
      /\ FromPanel(k, page[p].file)'
  <2>f. page'[p].file = page[p].file
    BY <1>1, <1>3 DEF IInv, TypeOK, Page
  <2>1. CASE store' = store
    <3>1. Keys' = Keys /\ store \in Seq(Seq(Put))
      BY <2>1 DEF Keys, IInv, TypeOK
    <3>2. Grown
      BY <2>1, <3>1 DEF Grown
    <3> QED BY <1>4, <2>1, <2>f, <3>1, <3>2 DEF FromPanel
  <2>2. CASE store' = Stored(k, page[p].file, TRUE)
    <3>1. /\ Grown /\ Keys' = Keys
          /\ \A l \in Keys \ {k} : store'[l] = store[l]
          /\ \A v \in DOMAIN store'[k] \ DOMAIN store[k] :
               store'[k][v] = [file |-> page[p].file, panel |-> TRUE]
      BY <1>2, <1>4, <2>2, PutGrows
    <3>2. ASSUME NEW v \in DOMAIN store'[k], store'[k][v].panel
          PROVE  store'[k][v].file = page[p].file
      BY <1>4, <3>1, <3>2 DEF Grown, FromPanel
    <3> QED BY <2>f, <3>1, <3>2 DEF FromPanel
  <2> QED BY <1>1, <2>1, <2>2
<1>6. /\ page' \in [Pages -> Page]
      /\ page'[p] = [page[p] EXCEPT !.at = at]
      /\ \A q \in Pages \ {p} : page'[q] = page[q]
  BY <1>1, <1>3 DEF IInv, TypeOK, Page
<1>7. /\ page'[p].at = at
      /\ page'[p].key = k
      /\ page'[p].file = page[p].file
      /\ page'[p].call = None
  BY <1>1, <1>3, <1>4, <1>6 DEF Page
<1>8. TypeOK'
  BY <1>1, <1>2, <1>5, <1>6 DEF IInv, TypeOK, Grown
<1>9. ASSUME NEW q \in Pages PROVE PageStands(q)'
  <2>1. CASE q = p
    <3>1. Owns(p, k)'
      BY <1>2, <1>4 DEF Unknown, Owns
    <3> QED BY <1>1, <1>2, <1>4, <1>5, <1>7, <2>1, <3>1 DEF PageStands, KeyStands, FromPanel, WaitStands
  <2>2. CASE q # p
    <3>1. PageStands(q) /\ page'[q] = page[q]
      BY <1>6, <2>2 DEF IInv
    <3>2. page[q].at # "idle" => page[q].key # k
      BY <1>1, <1>2, <2>2 DEF IInv, KeysApart
    <3> QED BY <1>2, <1>5, <3>1, <3>2 DEF PageStands, KeyStands, FromPanel, WaitStands, Owns, Unknown
  <2> QED BY <2>1, <2>2
<1>10. KeysApart'
  <2>1. \A q \in Pages : page'[q].key = page[q].key /\ (page'[q].at # "idle" => page[q].at # "idle")
    BY <1>1, <1>2, <1>6, <1>7
  <2> QED BY <1>2, <2>1 DEF IInv, KeysApart
<1>11. \A c \in Calls : CallStands(c)'
  BY <1>2, <1>5, CallOutlasts
<1> QED
  BY <1>2, <1>5, <1>8, <1>9, <1>10, <1>11, RowsOutlast DEF IInv, OneRecordPerObject

\* What is put again under a plan comes on top of what has been read back and
\* recorded, and is not the submission's.
LEMMA AgainPut ==
  ASSUME IInv, NEW k \in DOMAIN store, NEW f \in Contents, PutAgain(k, f)
  PROVE  IInv'
<1>1. /\ UNCHANGED <<mode, files, events, page, call, acked, faults>>
      /\ mode = "direct" /\ k \in Keys
      /\ store' = Stored(k, f, FALSE)
  BY Tables DEF PutAgain
<1>2. /\ Grown /\ Keys' = Keys
      /\ \A l \in Keys \ {k} : store'[l] = store[l]
      /\ \A v \in DOMAIN store'[k] \ DOMAIN store[k] :
           store'[k][v] = [file |-> f, panel |-> FALSE]
  BY <1>1, PutGrows
<1>3. TypeOK'
  BY <1>1, <1>2 DEF IInv, TypeOK, Grown
<1>4. ASSUME NEW l \in Keys, NEW g, FromPanel(l, g) PROVE FromPanel(l, g)'
  <2>1. CASE l = k
    BY <1>2, <1>4, <2>1 DEF FromPanel, Grown
  <2>2. CASE l # k
    BY <1>2, <1>4, <2>2 DEF FromPanel
  <2> QED BY <2>1, <2>2
<1>5. ASSUME NEW q \in Pages PROVE PageStands(q)'
  <2>1. PageStands(q)
    BY DEF IInv
  <2>2. KeyStands(q)'
    <3> PICK l, g : l = page[q].key /\ g = page[q].file
      OBVIOUS
    <3>1. mode = "direct" /\ page[q].at # "idle" =>
            /\ l \in Keys /\ FromPanel(l, g) /\ Owns(q, l)
            /\ page[q].at = "planned" => Unknown(l)
      BY <2>1 DEF PageStands, KeyStands
    <3>2. (Owns(q, l) => Owns(q, l)') /\ (Unknown(l) => Unknown(l)')
      BY <1>1 DEF Owns, Unknown
    <3> QED BY <1>1, <1>2, <1>4, <3>1, <3>2 DEF KeyStands
  <2>3. WaitStands(q)'
    BY <1>1, <2>1 DEF PageStands, WaitStands
  <2> QED BY <1>1, <2>1, <2>2, <2>3 DEF PageStands
<1>6. KeysApart'
  BY <1>1 DEF IInv, KeysApart
<1>7. \A c \in Calls : CallStands(c)'
  BY <1>1, <1>2, CallOutlasts
<1> QED BY <1>1, <1>2, <1>3, <1>5, <1>6, <1>7, RowsOutlast DEF IInv, OneRecordPerObject

\* A call is received: it has its page's key and file, and is nobody else's.
LEMMA Posted ==
  ASSUME IInv, NEW p \in Pages, NEW c \in Calls, Post(p, c)
  PROVE  IInv'
<1> PICK received : received = [at |-> "received", by |-> p, key |-> page[p].key,
                                file |-> page[p].file, version |-> 0, seen |-> 0]
  OBVIOUS
<1>1. /\ UNCHANGED <<mode, store, files, events, acked, faults>>
      /\ call[c].at = "idle"
      /\ page[p].at \in {"stored", "lost", "planned"}
      /\ mode = "direct" => page[p].at # "planned"
      /\ call' = [call EXCEPT ![c] = received]
      /\ page' = [page EXCEPT ![p].at = "waiting", ![p].call = c]
  BY IdleTypes DEF Post
<1>2. PageStands(p) /\ page[p] \in Page /\ page[p].file \in Contents
  BY <1>1, Tables DEF IInv, PageStands
<1>3. received \in Call
  BY <1>2 DEF Call, Page
<1>4. /\ call' \in [Calls -> Call]
      /\ call'[c] = received
      /\ \A d \in Calls \ {c} : call'[d] = call[d]
  BY <1>1, <1>3 DEF IInv, TypeOK
<1>5. /\ page' \in [Pages -> Page]
      /\ page'[p].at = "waiting"
      /\ page'[p].call = c
      /\ page'[p].key = page[p].key
      /\ page'[p].file = page[p].file
      /\ \A q \in Pages \ {p} : page'[q] = page[q]
  BY <1>1, <1>2 DEF IInv, TypeOK, Page
<1>6. TypeOK'
  BY <1>1, <1>4, <1>5 DEF IInv, TypeOK
<1>7. Keys' = Keys
  BY <1>1 DEF Keys
<1>8. ASSUME NEW q \in Pages PROVE PageStands(q)'
  <2>1. CASE q = p
    <3> PICK k : k = page[p].key
      OBVIOUS
    <3>1. mode = "direct" => k \in Keys /\ FromPanel(k, page[p].file) /\ Owns(p, k)
      BY <1>1, <1>2 DEF PageStands, KeyStands
    <3>2. mode = "direct" => Owns(p, k)'
      BY <1>1, <1>4, <3>1 DEF Owns
    <3>3. KeyStands(p)'
      BY <1>1, <1>5, <1>7, <3>1, <3>2 DEF KeyStands, FromPanel
    <3>4. WaitStands(p)' /\ c # None
      BY <1>1, <1>4, <1>5, NoneAssumption DEF WaitStands
    <3> QED BY <1>2, <1>5, <2>1, <3>3, <3>4 DEF PageStands
  <2>2. CASE q # p
    <3> PICK k : k = page[q].key
      OBVIOUS
    <3>1. PageStands(q) /\ page'[q] = page[q]
      BY <1>5, <2>2 DEF IInv
    <3>2. mode = "direct" /\ page[q].at # "idle" => k # received.key
      BY <1>1, <2>2 DEF IInv, KeysApart
    <3>3. KeyStands(q)'
      <4>1. k # received.key /\ Owns(q, k) => Owns(q, k)'
        BY <1>1, <1>4 DEF Owns
      <4>2. k # received.key /\ Unknown(k) => Unknown(k)'
        BY <1>1, <1>4 DEF Unknown
      <4>3. FromPanel(k, page[q].file) => FromPanel(k, page[q].file)'
        BY <1>1, <3>1 DEF FromPanel
      <4> QED BY <1>1, <1>7, <3>1, <3>2, <4>1, <4>2, <4>3 DEF PageStands, KeyStands
    <3>4. WaitStands(q)'
      <4>1. page[q].at = "waiting" => page[q].call # c
        BY <1>1, <3>1 DEF PageStands, WaitStands
      <4> QED BY <1>1, <1>4, <3>1, <4>1 DEF PageStands, WaitStands
    <3> QED BY <3>1, <3>3, <3>4 DEF PageStands
  <2> QED BY <2>1, <2>2
<1>9. KeysApart'
  <2>1. page[p].at # "idle"
    BY <1>1
  <2>2. ASSUME NEW q \in Pages
        PROVE  page'[q].key = page[q].key /\ (page'[q].at # "idle" => page[q].at # "idle")
    <3>1. CASE q = p
      BY <1>5, <2>1, <3>1
    <3>2. CASE q # p
      BY <1>5, <3>2
    <3> QED BY <3>1, <3>2
  <2>3. KeysApart /\ mode' = mode
    BY <1>1 DEF IInv
  <2> QED BY <2>2, <2>3 DEF KeysApart
<1>10. ASSUME NEW d \in Calls PROVE CallStands(d)'
  <2>1. CASE d = c
    BY <1>1, <1>2, <1>4, <1>7, <2>1 DEF CallStands, HashStands, PageStands, KeyStands, FromPanel
  <2>2. CASE d # c
    <3>1. CallStands(d) /\ call'[d] = call[d]
      BY <1>4, <2>2 DEF IInv
    <3> QED BY <1>1, <1>7, <3>1 DEF CallStands, HashStands, NoRowIn
  <2> QED BY <2>1, <2>2
<1> QED
  BY <1>1, <1>6, <1>7, <1>8, <1>9, <1>10
     DEF IInv, RowStands, HashStands, AnsweredIsRecorded, Hashed, OneRecordPerObject

\* A page that stops waiting keeps its key and its file.
LEMMA AnswerLost ==
  ASSUME IInv, NEW p \in Pages, LoseAnswer(p)
  PROVE  IInv'
<1>1. /\ UNCHANGED <<mode, store, files, events, call, acked>>
      /\ page[p].at = "waiting"
      /\ page' = [page EXCEPT ![p].at = "lost", ![p].call = None]
      /\ faults' = faults + 1
  BY DEF LoseAnswer
<1>2. PageStands(p) /\ page[p] \in Page
  BY Tables DEF IInv
<1>3. /\ page' \in [Pages -> Page]
      /\ page'[p].at = "lost"
      /\ page'[p].call = None
      /\ page'[p].key = page[p].key
      /\ page'[p].file = page[p].file
      /\ \A q \in Pages \ {p} : page'[q] = page[q]
  BY <1>1, <1>2 DEF IInv, TypeOK, Page
<1>4. TypeOK'
  BY <1>1, <1>3 DEF IInv, TypeOK
<1>5. Keys' = Keys
  BY <1>1 DEF Keys
<1>6. ASSUME NEW q \in Pages PROVE PageStands(q)'
  <2>1. CASE q = p
    <3> PICK k : k = page[p].key
      OBVIOUS
    <3>1. mode = "direct" => k \in Keys /\ FromPanel(k, page[p].file) /\ Owns(p, k)
      BY <1>1, <1>2 DEF PageStands, KeyStands
    <3>2. Owns(p, k) => Owns(p, k)'
      BY <1>1 DEF Owns
    <3>3. page[p].file \in Contents
      BY <1>1, <1>2 DEF PageStands
    <3> QED BY <1>1, <1>3, <1>5, <2>1, <3>1, <3>2, <3>3 DEF PageStands, KeyStands, FromPanel, WaitStands
  <2>2. CASE q # p
    <3>1. PageStands(q) /\ page'[q] = page[q]
      BY <1>3, <2>2 DEF IInv
    <3> PICK k : k = page[q].key
      OBVIOUS
    <3>2. (Owns(q, k) => Owns(q, k)') /\ (Unknown(k) => Unknown(k)')
      BY <1>1 DEF Owns, Unknown
    <3>3. KeyStands(q)'
      <4>1. FromPanel(k, page[q].file) => FromPanel(k, page[q].file)'
        BY <1>1, <3>1 DEF FromPanel
      <4> QED BY <1>1, <1>5, <3>1, <3>2, <4>1 DEF PageStands, KeyStands
    <3> QED BY <1>1, <3>1, <3>3 DEF PageStands, WaitStands
  <2> QED BY <2>1, <2>2
<1>7. KeysApart'
  <2>1. page[p].at # "idle"
    BY <1>1
  <2>2. ASSUME NEW q \in Pages
        PROVE  page'[q].key = page[q].key /\ (page'[q].at # "idle" => page[q].at # "idle")
    <3>1. CASE q = p
      BY <1>3, <2>1, <3>1
    <3>2. CASE q # p
      BY <1>3, <3>2
    <3> QED BY <3>1, <3>2
  <2>3. KeysApart /\ mode' = mode
    BY <1>1 DEF IInv
  <2> QED BY <2>2, <2>3 DEF KeysApart
<1>8. \A d \in Calls : CallStands(d)'
  BY <1>1, <1>5 DEF IInv, CallStands, HashStands, NoRowIn
<1> QED
  BY <1>1, <1>4, <1>5, <1>6, <1>7, <1>8
     DEF IInv, RowStands, HashStands, AnsweredIsRecorded, Hashed, OneRecordPerObject

-----------------------------------------------------------------------------
(* The API.                                                                *)

\* A call goes on: to a phase, with a file and a count of rows.
LEMMA CallAdvanced ==
  ASSUME IInv, NEW c \in Calls, UNCHANGED <<mode, store, files, events, page, acked, faults>>,
         NEW at \in {"looked", "hashed"}, NEW f \in Contents \cup {None}, NEW n \in Nat,
         call[c].at # "idle",
         call' \in [Calls -> Call], \A d \in Calls \ {c} : call'[d] = call[d],
         call'[c].at = at, call'[c].by = call[c].by, call'[c].key = call[c].key,
         call'[c].file = f, call'[c].version \in Nat, call'[c].seen = n,
         CallStands(c)',
         mode = "server" => f = call[c].file
  PROVE  IInv'
<1>1. \A d \in Calls :
        /\ call'[d].at # "idle" <=> call[d].at # "idle"
        /\ call'[d].by = call[d].by
        /\ call'[d].key = call[d].key
        /\ mode = "server" => call'[d].file = call[d].file
  OBVIOUS
<1>2. TypeOK' /\ Keys' = Keys
  BY DEF IInv, TypeOK, Keys
<1>3. ASSUME NEW q \in Pages PROVE PageStands(q)'
  <2>1. PageStands(q)
    BY DEF IInv
  <2>2. KeyStands(q)'
    BY <1>1, <1>2, <2>1 DEF PageStands, KeyStands, FromPanel, Owns, Unknown
  <2>3. WaitStands(q)'
    BY <1>1, <2>1 DEF PageStands, WaitStands
  <2> QED BY <2>1, <2>2, <2>3 DEF PageStands
<1>4. ASSUME NEW d \in Calls PROVE CallStands(d)'
  <2>1. CASE d # c
    BY <1>2, <2>1 DEF IInv, CallStands, HashStands, NoRowIn
  <2> QED BY <2>1
<1> QED
  BY <1>2, <1>3, <1>4 DEF IInv, KeysApart, RowStands, HashStands, AnsweredIsRecorded, Hashed, OneRecordPerObject

\* A call ends, and at most leaves rows of its own key: what remains of the
\* other pages and calls stands.
LEMMA CallEnded ==
  ASSUME IInv, NEW c \in Calls, UNCHANGED <<mode, store>>,
         call[c].at # "idle", End(c),
         page' \in [Pages -> Page],
         \A q \in Pages :
           \/ page'[q] = IdlePage
           \/ page'[q] = page[q] /\ (page[q].at = "waiting" => page[q].call # c)
           \/ /\ page[q].at = "waiting" /\ page'[q].at = "lost" /\ page'[q].call = None
              /\ page'[q].key = page[q].key /\ page'[q].file = page[q].file,
         files' \in Seq(Row), Len(files) <= Len(files'),
         \A i \in DOMAIN files : files'[i] = files[i],
         \A i \in DOMAIN files' \ DOMAIN files :
           files'[i].key = call[c].key /\ files'[i].by = call[c].by
  PROVE  /\ call' \in [Calls -> Call]
         /\ \A q \in Pages : PageStands(q)'
         /\ KeysApart'
         /\ \A d \in Calls : CallStands(d)'
<1>1. /\ call' \in [Calls -> Call]
      /\ call'[c].at = "idle"
      /\ \A d \in Calls \ {c} : call'[d] = call[d]
  BY IdleTypes DEF IInv, TypeOK, End
<1>2. Keys' = Keys
  BY DEF Keys
<1>3. ASSUME NEW q \in Pages, NEW k, Owns(q, k) PROVE Owns(q, k)'
  BY <1>1, <1>3 DEF Owns
<1>4. ASSUME NEW k, Unknown(k) PROVE Unknown(k)'
  BY <1>1, <1>4 DEF Unknown
<1>5. ASSUME NEW q \in Pages PROVE PageStands(q)'
  <2> PICK k : k = page[q].key
    OBVIOUS
  <2>1. PageStands(q)
    BY DEF IInv
  <2>2. CASE page'[q] = IdlePage
    BY <2>2, IdleTypes DEF PageStands, KeyStands, FromPanel, WaitStands
  <2>3. CASE page'[q] = page[q] /\ (page[q].at = "waiting" => page[q].call # c)
    <3>1. KeyStands(q)'
      BY <1>2, <1>3, <1>4, <2>1, <2>3 DEF PageStands, KeyStands, FromPanel
    <3>2. WaitStands(q)'
      BY <1>1, <2>1, <2>3 DEF PageStands, WaitStands
    <3> QED BY <2>1, <2>3, <3>1, <3>2 DEF PageStands
  <2>4. CASE /\ page[q].at = "waiting" /\ page'[q].at = "lost" /\ page'[q].call = None
             /\ page'[q].key = page[q].key /\ page'[q].file = page[q].file
    BY <1>2, <1>3, <2>1, <2>4 DEF PageStands, KeyStands, FromPanel, WaitStands
  <2> QED BY <2>2, <2>3, <2>4
<1>6. KeysApart'
  <2>1. ASSUME NEW q \in Pages, page'[q].at # "idle"
        PROVE  page[q].at # "idle" /\ page'[q].key = page[q].key
    BY <2>1, IdleTypes
  <2> QED BY <2>1 DEF IInv, KeysApart
<1>7. ASSUME NEW d \in Calls PROVE CallStands(d)'
  <2>1. CASE d = c
    BY <1>1, <2>1 DEF CallStands, HashStands
  <2>2. CASE d # c
    <3>1. CallStands(d) /\ call'[d] = call[d]
      BY <1>1, <2>2 DEF IInv
    <3>2. ASSUME NEW n, NEW k, NoRowIn(n, k) PROVE NoRowIn(n, k)'
      BY <3>2, Tables DEF NoRowIn
    <3> PICK n, k : n = call[d].seen /\ k = call[d].key
      OBVIOUS
    <3> QED BY <1>2, <3>1, <3>2 DEF CallStands, HashStands
  <2> QED BY <2>1, <2>2
<1> QED BY <1>1, <1>5, <1>6, <1>7

\* A call is answered with row i, which is the one of each page that waits.
LEMMA Answered ==
  ASSUME IInv, NEW c \in Calls, UNCHANGED <<mode, store, faults>>,
         call[c].at # "idle", NEW i \in DOMAIN files', AnswerWith(c, i),
         files' \in Seq(Row), Len(files) <= Len(files'), events' = Len(files'),
         \A j \in DOMAIN files : files'[j] = files[j],
         \A j \in DOMAIN files' \ DOMAIN files :
           files'[j].key = call[c].key /\ files'[j].by = call[c].by,
         \A p \in Pages : page[p].at = "waiting" /\ page[p].call = c
           => files'[i].by = p /\ (Hashed(files'[i]).panel => files'[i].sha = page[p].file),
         \A j \in DOMAIN files' : RowStands(j)',
         OneRecordPerObject'
  PROVE  IInv'
<1> PICK waiting : waiting = {p \in Pages : page[p].at = "waiting" /\ page[p].call = c}
  OBVIOUS
<1>1. /\ acked' = acked \cup {[by |-> p, file |-> page[p].file, row |-> i] : p \in waiting}
      /\ page' = [p \in Pages |-> IF p \in waiting THEN IdlePage ELSE page[p]]
      /\ End(c)
  BY DEF AnswerWith
<1>2. page' \in [Pages -> Page]
  BY <1>1, IdleTypes DEF IInv, TypeOK
<1>3. \A q \in Pages :
        \/ page'[q] = IdlePage
        \/ page'[q] = page[q] /\ (page[q].at = "waiting" => page[q].call # c)
  BY <1>1
<1>4. /\ call' \in [Calls -> Call]
      /\ \A q \in Pages : PageStands(q)'
      /\ KeysApart'
      /\ \A d \in Calls : CallStands(d)'
  BY <1>1, <1>2, <1>3, CallEnded
<1>5. i \in Nat /\ Len(files') \in Nat /\ DOMAIN files' = 1..Len(files')
  OBVIOUS
<1>6. ASSUME NEW a \in acked'
      PROVE  /\ a \in Acknowledgement
             /\ a.row \in DOMAIN files'
             /\ files'[a.row].by = a.by
             /\ Hashed(files'[a.row]).panel => files'[a.row].sha = a.file
  <2>1. CASE a \in acked
    <3>1. /\ a \in Acknowledgement /\ a.row \in DOMAIN files
          /\ files[a.row].by = a.by
          /\ Hashed(files[a.row]).panel => files[a.row].sha = a.file
      BY <2>1 DEF IInv, TypeOK, AnsweredIsRecorded
    <3> QED BY <1>5, <3>1, Tables
  <2>2. CASE \E p \in waiting : a = [by |-> p, file |-> page[p].file, row |-> i]
    <3> PICK p \in waiting : a = [by |-> p, file |-> page[p].file, row |-> i]
      BY <2>2
    <3>1. page[p].file \in Contents
      BY DEF IInv, PageStands
    <3> QED BY <1>5, <3>1 DEF Acknowledgement
  <2> QED BY <1>1, <2>1, <2>2
<1>7. TypeOK'
  BY <1>2, <1>4, <1>5, <1>6 DEF IInv, TypeOK
<1>8. AnsweredIsRecorded'
  BY <1>6 DEF AnsweredIsRecorded, Hashed
<1> QED BY <1>4, <1>7, <1>8 DEF IInv

\* The look for a record: either it is found, and is the answer, or the call
\* has looked past every row.
LEMMA Looked ==
  ASSUME IInv, NEW c \in Calls, Look(c)
  PROVE  IInv'
<1>1. /\ UNCHANGED <<mode, store, files, events, faults>>
      /\ mode = "direct"
      /\ call[c].at = "received"
  BY DEF Look
<1>2. CallStands(c) /\ call[c] \in Call
  BY Tables DEF IInv
<1>3. CASE \E i \in Existing(call[c].key) : AnswerWith(c, i)
  <2> PICK i \in DOMAIN files : files[i].key = call[c].key /\ AnswerWith(c, i)
    BY <1>3 DEF Existing
  <2>1. ASSUME NEW p \in Pages, page[p].at = "waiting", page[p].call = c
        PROVE  files[i].by = p /\ (Hashed(files[i]).panel => files[i].sha = page[p].file)
    <3> PICK k : k = page[p].key
      OBVIOUS
    <3>1. /\ FromPanel(k, page[p].file)
          /\ Owns(p, k)
          /\ call[c].key = k
      BY <1>1, <2>1 DEF IInv, PageStands, KeyStands, FromPanel, WaitStands
    <3>2. files[i].version \in DOMAIN store[k] /\ Hashed(files[i]).file = files[i].sha
      BY <3>1 DEF IInv, RowStands, HashStands, Hashed
    <3> QED BY <3>1, <3>2 DEF Owns, FromPanel, Hashed
  <2>2. /\ files \in Seq(Row) /\ Len(files) \in Nat /\ events = Len(files)
        /\ \A j \in DOMAIN files : RowStands(j)
        /\ OneRecordPerObject
    BY Tables DEF IInv, TypeOK
  <2>3. (\A j \in DOMAIN files : RowStands(j)') /\ OneRecordPerObject'
    BY <1>1, <2>2 DEF RowStands, HashStands, OneRecordPerObject, Keys
  <2> QED BY <1>1, <2>1, <2>2, <2>3, Answered
<1>4. CASE Existing(call[c].key) = {} /\ UNCHANGED <<page, acked>>
           /\ call' = [call EXCEPT ![c].at = "looked", ![c].seen = Len(files)]
  <2>1. Len(files) \in Nat /\ \A i \in 1..Len(files) : files[i].key # call[c].key
    BY <1>4, Tables DEF Existing
  <2>2. /\ call' \in [Calls -> Call]
        /\ \A d \in Calls \ {c} : call'[d] = call[d]
    BY <1>2, <1>4, <2>1 DEF IInv, TypeOK, Call
  <2>3. /\ call'[c].at = "looked" /\ call'[c].by = call[c].by
        /\ call'[c].key = call[c].key /\ call'[c].file = call[c].file
        /\ call'[c].version \in Nat /\ call'[c].seen = Len(files)
    BY <1>2, <1>4 DEF IInv, TypeOK, Call
  <2>4. NoRowIn(call'[c].seen, call'[c].key)
    BY <2>1, <2>3 DEF NoRowIn
  <2>5. CallStands(c)'
    BY <1>1, <1>2, <2>3, <2>4 DEF CallStands, HashStands, NoRowIn, Keys
  <2>6. call[c].file \in Contents \cup {None}
    BY <1>2 DEF Call
  <2> QED BY <1>1, <1>4, <2>1, <2>2, <2>3, <2>5, <2>6, CallAdvanced
<1> QED BY <1>3, <1>4 DEF Look

\* What is read back is what the key holds.
LEMMA Verified ==
  ASSUME IInv, NEW c \in Calls, verifyDirectUpload(c)
  PROVE  IInv'
<1> PICK k, v : k = call[c].key /\ v = Len(store[k])
  OBVIOUS
<1> PICK o : o = store[k][v].file
  OBVIOUS
<1>1. /\ UNCHANGED <<mode, store, files, events, page, acked, faults>>
      /\ call[c].at = "looked"
      /\ store[k] # <<>>
      /\ call' = [call EXCEPT ![c].at = "hashed", ![c].file = o, ![c].version = v]
  BY DEF verifyDirectUpload
<1>2. CallStands(c) /\ call[c] \in Call
  BY Tables DEF IInv
<1>3. mode = "direct" /\ k \in Keys /\ call[c].seen \in Nat
  BY <1>1, <1>2 DEF CallStands, Call
<1>4. v \in Nat /\ v \in DOMAIN store[k] /\ o \in Contents
  <2>1. store[k] \in Seq(Put)
    BY <1>3, Tables DEF IInv, TypeOK
  <2>2. v \in Nat /\ v \in DOMAIN store[k] /\ store[k][v] \in Put
    BY <1>1, <2>1
  <2> QED BY <2>2 DEF Put
<1>5. /\ call' \in [Calls -> Call]
      /\ \A d \in Calls \ {c} : call'[d] = call[d]
  BY <1>1, <1>2, <1>4 DEF IInv, TypeOK, Call
<1>6. /\ call'[c].at = "hashed" /\ call'[c].by = call[c].by /\ call'[c].key = k
      /\ call'[c].file = o /\ call'[c].version = v /\ call'[c].seen = call[c].seen
  BY <1>1, <1>2 DEF IInv, TypeOK, Call
<1>7. CallStands(c)'
  BY <1>1, <1>2, <1>3, <1>4, <1>6 DEF CallStands, HashStands, NoRowIn, Keys
<1>8. o \in Contents \cup {None} /\ call'[c].version \in Nat /\ mode # "server"
  BY <1>3, <1>4, <1>6
<1> QED BY <1>1, <1>3, <1>5, <1>6, <1>7, <1>8, CallAdvanced

\* A saved file has a key that no row names.
LEMMA Saved ==
  ASSUME IInv, NEW c \in Calls, save(c)
  PROVE  IInv'
<1> PICK n \in Nat : n = Len(store) + 1
  BY Tables
<1> PICK o : o = [file |-> call[c].file, panel |-> TRUE]
  OBVIOUS
<1>1. /\ UNCHANGED <<mode, files, events, page, acked, faults>>
      /\ mode = "server"
      /\ call[c].at = "received"
      /\ store' = Append(store, <<o>>)
      /\ call' = [call EXCEPT ![c].at = "hashed", ![c].key = n, ![c].version = 1,
                              ![c].seen = Len(files)]
  BY DEF save
<1>2. CallStands(c) /\ call[c] \in Call /\ call[c].file \in Contents
  BY <1>1, Tables DEF IInv, CallStands
<1>3. /\ store' \in Seq(Seq(Put))
      /\ Keys' = 1..n
      /\ \A k \in Keys : store'[k] = store[k]
      /\ store'[n] = <<o>>
  <2>1. o \in Put
    BY <1>2 DEF Put
  <2> PICK e : e = <<o>>
    OBVIOUS
  <2>2. e \in Seq(Put) /\ store' = Append(store, e)
    BY <1>1, <2>1
  <2>3. store' \in Seq(Seq(Put)) /\ Len(store') = n /\ store'[n] = e
        /\ \A k \in Keys : store'[k] = store[k]
    BY <2>2, KeyAdded
  <2> QED BY <2>3 DEF Keys
<1>4. n \notin Keys /\ Keys \subseteq Keys' /\ n \in Keys'
  BY <1>3, Tables DEF Keys
<1>5. /\ call' \in [Calls -> Call]
      /\ \A d \in Calls \ {c} : call'[d] = call[d]
  BY <1>1, <1>2, Tables DEF IInv, TypeOK, Call
<1>6. /\ call'[c].at = "hashed" /\ call'[c].by = call[c].by /\ call'[c].key = n
      /\ call'[c].file = call[c].file /\ call'[c].version = 1 /\ call'[c].seen = Len(files)
  BY <1>1, <1>2 DEF IInv, TypeOK, Call
<1>7. TypeOK'
  BY <1>1, <1>3, <1>5 DEF IInv, TypeOK
<1>8. ASSUME NEW q \in Pages PROVE PageStands(q)'
  <2>1. PageStands(q)
    BY DEF IInv
  <2>2. page[q].at = "waiting" => call'[page[q].call].at # "idle"
                                  /\ call'[page[q].call].by = q
                                  /\ call'[page[q].call].file = page[q].file
    BY <1>1, <1>5, <1>6, <2>1 DEF PageStands, WaitStands
  <2> QED BY <1>1, <2>1, <2>2 DEF PageStands, KeyStands, FromPanel, WaitStands
<1>9. KeysApart'
  BY <1>1 DEF KeysApart
<1>10. Grown
  BY <1>3, <1>4 DEF Grown
<1>11. ASSUME NEW d \in Calls PROVE CallStands(d)'
  <2>1. CASE d = c
    <3>1. NoRowIn(Len(files), n)'
      BY <1>1, <1>4, Tables DEF NoRowIn, IInv, RowStands
    <3>2. HashStands(n, 1, call[c].file)'
      BY <1>1, <1>3, <1>6 DEF HashStands
    <3> QED BY <1>1, <1>2, <1>3, <1>4, <1>6, <2>1, <3>1, <3>2 DEF CallStands
  <2>2. CASE d # c
    BY <1>1, <1>5, <1>10, <2>2, CallOutlasts
  <2> QED BY <2>1, <2>2
<1> QED
  BY <1>1, <1>7, <1>8, <1>9, <1>10, <1>11, RowsOutlast DEF IInv, OneRecordPerObject

\* A record is of the object its call has verified or saved, and second of its
\* key only to one that the call has not looked past.
LEMMA Recorded ==
  ASSUME IInv, NEW c \in Calls, createEvidenceRecord(c)
  PROVE  IInv'
<1> PICK n \in Nat : n = Len(files) + 1
  BY Tables
<1> PICK row : row = [key |-> call[c].key, by |-> call[c].by, sha |-> call[c].file,
                      version |-> call[c].version, seen |-> call[c].seen]
  OBVIOUS
<1>1. /\ UNCHANGED <<mode, store, faults>>
      /\ call[c].at = "hashed"
      /\ files' = Append(files, row)
      /\ events' = events + 1
      /\ AnswerWith(c, n)
  BY DEF createEvidenceRecord, RowOf
<1>2. /\ row.key \in Keys /\ HashStands(row.key, row.version, row.sha)
      /\ row.sha \in Contents /\ row.by \in Pages
      /\ row.version \in Nat /\ row.seen \in Nat
      /\ \A i \in 1..row.seen : files[i].key # row.key
  <2>1. CallStands(c) /\ call[c] \in Call
    BY Tables DEF IInv
  <2>2. call[c].version \in Nat /\ call[c].seen \in Nat
    BY <2>1 DEF Call
  <2> QED BY <1>1, <2>1, <2>2 DEF CallStands, NoRowIn
<1>3. row \in Row
  BY <1>2 DEF Row, Keys
<1>4. /\ files' \in Seq(Row)
      /\ Len(files') = n /\ Len(files) <= Len(files')
      /\ DOMAIN files' = 1..n
      /\ files'[n] = row
      /\ \A j \in DOMAIN files : files'[j] = files[j]
      /\ DOMAIN files' \ DOMAIN files = {n}
  BY <1>1, <1>3, Tables DEF IInv, TypeOK
<1>5. ASSUME NEW p \in Pages, page[p].at = "waiting", page[p].call = c
      PROVE  row.by = p /\ (Hashed(row).panel => row.sha = page[p].file)
  <2>1. PageStands(p)
    BY DEF IInv
  <2>2. row.by = p
    BY <1>5, <2>1 DEF PageStands, WaitStands
  <2>3. CASE mode = "direct"
    <3>1. FromPanel(row.key, page[p].file)
      BY <1>5, <2>1, <2>3 DEF PageStands, KeyStands, WaitStands
    <3> QED BY <1>2, <2>2, <3>1 DEF FromPanel, HashStands, Hashed
  <2>4. CASE mode = "server"
    BY <1>5, <2>1, <2>2, <2>4 DEF PageStands, WaitStands
  <2> QED BY <2>3, <2>4 DEF IInv, TypeOK
<1>6. ASSUME NEW j \in DOMAIN files' PROVE RowStands(j)'
  <2>1. CASE j = n
    BY <1>1, <1>2, <1>4, <2>1 DEF RowStands, HashStands, Keys
  <2>2. CASE j # n
    <3>1. j \in DOMAIN files /\ files'[j] = files[j] /\ RowStands(j)
      BY <1>4, <2>2 DEF IInv
    <3> QED BY <1>1, <3>1 DEF RowStands, HashStands, Keys
  <2> QED BY <2>1, <2>2
<1>7. OneRecordPerObject'
  <2> SUFFICES ASSUME NEW i \in 1..n, NEW j \in 1..n, i < j, files'[i].key = files'[j].key
               PROVE  files'[j].seen < i
    BY <1>4 DEF OneRecordPerObject
  <2>1. i \in DOMAIN files /\ files'[i] = files[i]
    BY <1>4, Tables
  <2>2. CASE j = n
    BY <1>2, <1>4, <2>1, <2>2
  <2>3. CASE j # n
    <3>1. j \in DOMAIN files /\ files'[j] = files[j]
      BY <1>4, <2>3
    <3> QED BY <2>1, <3>1 DEF IInv, OneRecordPerObject
  <2> QED BY <2>2, <2>3
<1>8. events' = Len(files')
  BY <1>1, <1>4 DEF IInv
<1>9. \A j \in DOMAIN files' \ DOMAIN files :
        files'[j].key = call[c].key /\ files'[j].by = call[c].by
  BY <1>4
<1>10. \A p \in Pages : page[p].at = "waiting" /\ page[p].call = c
         => files'[n].by = p /\ (Hashed(files'[n]).panel => files'[n].sha = page[p].file)
  BY <1>4, <1>5
<1> QED BY <1>1, <1>4, <1>6, <1>7, <1>8, <1>9, <1>10, Answered

\* A call that dies leaves its object and nothing else.
LEMMA Died ==
  ASSUME IInv, NEW c \in Calls, Die(c)
  PROVE  IInv'
<1>1. /\ UNCHANGED <<mode, store, files, events, acked>>
      /\ call[c].at # "idle"
      /\ End(c)
      /\ faults' = faults + 1
  BY DEF Die
<1>2. page' = [p \in Pages |->
        IF page[p].at = "waiting" /\ page[p].call = c
        THEN [page[p] EXCEPT !.at = "lost", !.call = None] ELSE page[p]]
  BY DEF Die
<1>3. ASSUME NEW q \in Pages
      PROVE  /\ page'[q] \in Page
             /\ \/ page'[q] = page[q] /\ (page[q].at = "waiting" => page[q].call # c)
                \/ /\ page[q].at = "waiting" /\ page'[q].at = "lost" /\ page'[q].call = None
                   /\ page'[q].key = page[q].key /\ page'[q].file = page[q].file
  BY <1>2, Tables DEF Page
<1>4. page' \in [Pages -> Page]
  BY <1>2, <1>3
<1>5. /\ files' \in Seq(Row)
      /\ Len(files) <= Len(files')
      /\ \A j \in DOMAIN files : files'[j] = files[j]
      /\ DOMAIN files' \ DOMAIN files = {}
  <2>1. files' = files /\ files \in Seq(Row)
    BY <1>1 DEF IInv, TypeOK
  <2> QED BY <2>1
<1>6. /\ call' \in [Calls -> Call]
      /\ (\A q \in Pages : PageStands(q)') /\ KeysApart' /\ (\A d \in Calls : CallStands(d)')
  BY <1>1, <1>3, <1>4, <1>5, CallEnded
<1>7. TypeOK'
  BY <1>1, <1>4, <1>6 DEF IInv, TypeOK
<1> QED
  BY <1>1, <1>6, <1>7 DEF IInv, RowStands, HashStands, AnsweredIsRecorded, Hashed, OneRecordPerObject, Keys

-----------------------------------------------------------------------------
LEMMA IInvInit == Init => IInv
<1> SUFFICES ASSUME Init PROVE IInv
  OBVIOUS
<1>1. \A p \in Pages : PageStands(p)
  BY IdleTypes DEF Init, PageStands, KeyStands, FromPanel, WaitStands
<1>2. \A c \in Calls : CallStands(c)
  BY IdleTypes DEF Init, CallStands, HashStands
<1>3. TypeOK
  BY IdleTypes DEF Init, TypeOK
<1>4. KeysApart
  BY IdleTypes DEF Init, KeysApart
<1> QED
  BY <1>1, <1>2, <1>3, <1>4
     DEF Init, IInv, RowStands, HashStands, AnsweredIsRecorded, Hashed, OneRecordPerObject

LEMMA IInvNext == IInv /\ [Next]_vars => IInv'
<1> SUFFICES ASSUME IInv, [Next]_vars PROVE IInv'
  OBVIOUS
<1>1. CASE \E p \in Pages : PageStep(p)
  BY <1>1, Submitted, ObjectPut, Posted, AnswerLost DEF PageStep
<1>2. CASE \E c \in Calls : CallStep(c)
  BY <1>2, Looked, Verified, Saved, Recorded, Died DEF CallStep
<1>3. CASE \E k \in DOMAIN store, f \in Contents : PutAgain(k, f)
  BY <1>3, AgainPut
<1>4. CASE UNCHANGED vars
  <2>1. UNCHANGED <<mode, store, files, events, page, call, acked, faults>>
    BY <1>4 DEF vars
  <2>2. TypeOK' /\ KeysApart' /\ AnsweredIsRecorded' /\ OneRecordPerObject' /\ events' = Len(files')
    BY <2>1 DEF IInv, TypeOK, KeysApart, AnsweredIsRecorded, Hashed, OneRecordPerObject
  <2>3. \A p \in Pages : PageStands(p)'
    BY <2>1 DEF IInv, PageStands, KeyStands, FromPanel, WaitStands, Owns, Unknown, Keys
  <2>4. (\A c \in Calls : CallStands(c)') /\ (\A i \in DOMAIN files' : RowStands(i)')
    BY <2>1 DEF IInv, CallStands, HashStands, NoRowIn, RowStands, Keys
  <2> QED BY <2>2, <2>3, <2>4 DEF IInv
<1> QED BY <1>1, <1>2, <1>3, <1>4 DEF Next

LEMMA Invariance == Spec => []IInv
  BY IInvInit, IInvNext, PTL DEF Spec

-----------------------------------------------------------------------------
\* The stores, the panels and the calls keep their types.
THEOREM EvidenceTypeCorrect == Spec => []TypeOK
<1>1. IInv => TypeOK
  BY DEF IInv
<1> QED BY <1>1, Invariance, PTL

\* Every record names an object that is there and has the hash of what was
\* put under its key, the object itself unless its plan is used once more, and
\* is on the audit trail, whatever failed or was repeated
\* (RecordsHaveTheirObjects).
THEOREM RecordsHaveTheirObjectsAlways == Spec => []RecordsHaveTheirObjects
<1>1. ASSUME IInv, NEW i \in DOMAIN files
      PROVE  /\ Readable(files[i])
             /\ files[i].version \in DOMAIN store[files[i].key]
             /\ Hashed(files[i]).file = files[i].sha
             /\ mode = "server" => files[i].version = Len(store[files[i].key])
  <2>1. files[i].key \in Keys /\ HashStands(files[i].key, files[i].version, files[i].sha)
    BY <1>1 DEF IInv, RowStands
  <2> QED BY <1>1, <2>1, Tables DEF HashStands, Hashed, Readable
<1>2. IInv => RecordsHaveTheirObjects
  BY <1>1 DEF IInv, RecordsHaveTheirObjects
<1> QED BY <1>2, Invariance, PTL

\* A submission that was answered is on record, as that party's and with that
\* file unless another put was read back (AnsweredIsRecorded).
THEOREM AnsweredIsRecordedAlways == Spec => []AnsweredIsRecorded
<1>1. IInv => AnsweredIsRecorded
  BY DEF IInv
<1> QED BY <1>1, Invariance, PTL

\* A second record of an object comes only from a call that looked before the
\* first was there (OneRecordPerObject).
THEOREM OneRecordPerObjectAlways == Spec => []OneRecordPerObject
<1>1. IInv => OneRecordPerObject
  BY DEF IInv
<1> QED BY <1>1, Invariance, PTL

-----------------------------------------------------------------------------
(* Stray objects.                                                          *)

\* The keys, with an object or not, that no record names and nobody is working
\* on, and what it is to work on one.
Strays == {k \in DOMAIN store : Existing(k) = {} /\ ~InProgress(k)}
PageUses(p, k) == page[p].at \in {"planned", "stored", "waiting"} /\ page[p].key = k
CallUses(c, k) == call[c] # IdleCall /\ call[c].key = k

\* Where the API takes the file no page has a key, and no call before it saves.
ServerKeys ==
  mode = "server" =>
    /\ \A p \in Pages : page[p].key = 0
    /\ \A c \in Calls : call[c].at = "received" => call[c].key = 0

LEMMA Stray ==
  ASSUME NEW k
  PROVE  k \in Strays <=>
           /\ k \in DOMAIN store
           /\ \A i \in DOMAIN files : files[i].key # k
           /\ \A p \in Pages : ~PageUses(p, k)
           /\ \A c \in Calls : ~CallUses(c, k)
  BY DEF Strays, Existing, InProgress, PageUses, CallUses

\* The same after a step.
LEMMA StrayNext ==
  ASSUME NEW k
  PROVE  k \in Strays' <=>
           /\ k \in DOMAIN store'
           /\ \A i \in DOMAIN files' : files'[i].key # k
           /\ \A p \in Pages : ~PageUses(p, k)'
           /\ \A c \in Calls : ~CallUses(c, k)'
  BY DEF Strays, Existing, InProgress, PageUses, CallUses

\* A submission begins on a key of its own.
LEMMA SubmitStrays ==
  ASSUME IInv, NEW p \in Pages, NEW f \in Contents, Submit(p, f)
  PROVE  Strays' \subseteq Strays
<1> SUFFICES ASSUME NEW k \in Strays' PROVE k \in Strays
  OBVIOUS
<1>1. /\ UNCHANGED <<files, call>>
      /\ page[p].at \in {"idle", "lost"}
      /\ \A q \in Pages \ {p} : page'[q] = page[q]
      /\ \/ store' = store
         \/ /\ store' = Append(store, <<>>)
            /\ page'[p].at = "planned" /\ page'[p].key = Len(store) + 1
  BY DEF Submit, prepareUpload, IInv, TypeOK
<1>2. k \in DOMAIN store
  <2>1. CASE store' = store
    BY <2>1, StrayNext
  <2>2. CASE /\ store' = Append(store, <<>>)
             /\ page'[p].at = "planned" /\ page'[p].key = Len(store) + 1
    <3>1. k # Len(store) + 1
      BY <2>2, StrayNext DEF PageUses
    <3> QED BY <2>2, <3>1, StrayNext, Tables DEF IInv, TypeOK
  <2> QED BY <1>1, <2>1, <2>2
<1>3. \A q \in Pages : ~PageUses(q, k)
  BY <1>1, StrayNext DEF PageUses
<1>4. \A c \in Calls : ~CallUses(c, k)
  BY <1>1, StrayNext DEF CallUses
<1> QED BY <1>2, <1>3, <1>4, <1>1, StrayNext, Stray

\* An object that is put is of its page, unless the transfer fails.
LEMMA PutStrays ==
  ASSUME IInv, NEW p \in Pages, PutObject(p)
  PROVE  \/ Strays' \subseteq Strays
         \/ Strays' \subseteq Strays \cup {page[p].key} /\ faults' = faults + 1
<1>1. /\ UNCHANGED <<files, call>>
      /\ page[p].at = "planned"
      /\ DOMAIN store' = DOMAIN store
      /\ \E at : page' = [page EXCEPT ![p].at = at] /\ (at = "stored" \/ faults' = faults + 1)
  BY Tables DEF PutObject, Stored
<1>2. /\ page'[p].key = page[p].key
      /\ \A q \in Pages \ {p} : page'[q] = page[q]
      /\ page'[p].at = "stored" \/ faults' = faults + 1
  BY <1>1, Tables DEF IInv, TypeOK, Page
<1>3. ASSUME NEW k \in Strays', k # page[p].key PROVE k \in Strays
  <2>1. k \in DOMAIN store
    BY <1>1, <1>3, StrayNext
  <2>2. \A q \in Pages : ~PageUses(q, k)
    BY <1>2, <1>3, StrayNext DEF PageUses
  <2>3. \A c \in Calls : ~CallUses(c, k)
    BY <1>1, StrayNext DEF CallUses
  <2> QED BY <1>1, <2>1, <2>2, <2>3, StrayNext, Stray
<1>4. page'[p].at = "stored" => page[p].key \notin Strays'
  BY <1>2, StrayNext DEF PageUses
<1> QED BY <1>2, <1>3, <1>4

\* A call takes over the key of the page that posts.
LEMMA PostStrays ==
  ASSUME IInv, NEW p \in Pages, NEW c \in Calls, Post(p, c)
  PROVE  Strays' \subseteq Strays
<1> SUFFICES ASSUME NEW k \in Strays' PROVE k \in Strays
  OBVIOUS
<1>1. /\ UNCHANGED <<store, files>>
      /\ call[c] = IdleCall
      /\ \A d \in Calls \ {c} : call'[d] = call[d]
  BY DEF Post, IInv, TypeOK
<1>2. /\ page'[p].at = "waiting" /\ page'[p].key = page[p].key
      /\ \A q \in Pages \ {p} : page'[q] = page[q]
  BY Tables DEF Post, IInv, TypeOK, Page
<1>3. \A q \in Pages : ~PageUses(q, k)
  BY <1>2, StrayNext DEF PageUses
<1>4. \A d \in Calls : ~CallUses(d, k)
  BY <1>1, StrayNext DEF CallUses
<1> QED BY <1>1, <1>3, <1>4, StrayNext, Stray

\* A page that stops waiting gives up its key.
LEMMA LoseStrays ==
  ASSUME IInv, NEW p \in Pages, LoseAnswer(p)
  PROVE  Strays' \subseteq Strays \cup {page[p].key} /\ faults' = faults + 1
<1>1. /\ UNCHANGED <<store, files, call>>
      /\ faults' = faults + 1
      /\ \A q \in Pages \ {p} : page'[q] = page[q]
  BY DEF LoseAnswer, IInv, TypeOK
<1>2. ASSUME NEW k \in Strays', k # page[p].key PROVE k \in Strays
  <2>1. \A q \in Pages : ~PageUses(q, k)
    BY <1>1, <1>2, StrayNext DEF PageUses
  <2>2. \A c \in Calls : ~CallUses(c, k)
    BY <1>1, StrayNext DEF CallUses
  <2> QED BY <1>1, <2>1, <2>2, StrayNext, Stray
<1> QED BY <1>1, <1>2

\* A call that goes on keeps its key.
LEMMA AdvanceStrays ==
  ASSUME IInv, NEW c \in Calls, UNCHANGED <<store, files, page>>,
         call' \in [Calls -> Call], \A d \in Calls \ {c} : call'[d] = call[d],
         call'[c].at # "idle", call'[c].key = call[c].key
  PROVE  Strays' \subseteq Strays
<1> SUFFICES ASSUME NEW k \in Strays' PROVE k \in Strays
  OBVIOUS
<1>1. call'[c] # IdleCall
  BY IdleTypes
<1>2. \A d \in Calls : ~CallUses(d, k)
  BY <1>1, StrayNext DEF CallUses
<1>3. \A q \in Pages : ~PageUses(q, k)
  BY StrayNext DEF PageUses
<1> QED BY <1>2, <1>3, StrayNext, Stray

\* A call that ends gives up its key, and so do the pages that wait for it,
\* which have the same.
LEMMA EndStrays ==
  ASSUME IInv, ServerKeys, NEW c \in Calls, UNCHANGED <<mode, store>>,
         End(c), call[c].at # "idle",
         \A q \in Pages : page'[q] = page[q] \/ (page[q].at = "waiting" /\ page[q].call = c),
         \A i \in DOMAIN files : i \in DOMAIN files' /\ files'[i] = files[i]
  PROVE  Strays' \subseteq Strays \cup {call[c].key}
<1> SUFFICES ASSUME NEW k \in Strays', k # call[c].key PROVE k \in Strays
  OBVIOUS
<1>1. \A d \in Calls \ {c} : call'[d] = call[d]
  BY DEF End, IInv, TypeOK
<1>2. \A d \in Calls : ~CallUses(d, k)
  BY <1>1, StrayNext DEF CallUses
<1>3. k # 0
  BY StrayNext, Tables DEF Keys
<1>4. ASSUME NEW q \in Pages PROVE ~PageUses(q, k)
  <2>1. CASE page'[q] = page[q]
    BY <2>1, StrayNext DEF PageUses
  <2>2. CASE page[q].at = "waiting" /\ page[q].call = c
    <3>1. mode = "direct" => page[q].key = call[c].key
      BY <2>2 DEF IInv, PageStands, WaitStands
    <3>2. mode = "server" => page[q].key = 0
      BY DEF ServerKeys
    <3> QED BY <1>3, <3>1, <3>2 DEF PageUses, IInv, TypeOK
  <2> QED BY <2>1, <2>2
<1> QED BY <1>2, <1>4, StrayNext, Stray

\* Where a call is answered its key is recorded.
LEMMA AnswerStrays ==
  ASSUME IInv, ServerKeys, NEW c \in Calls, NEW i \in DOMAIN files', AnswerWith(c, i),
         UNCHANGED <<mode, store>>, call[c].at # "idle",
         \A j \in DOMAIN files : j \in DOMAIN files' /\ files'[j] = files[j],
         files'[i].key = call[c].key
  PROVE  Strays' \subseteq Strays
<1>1. Strays' \subseteq Strays \cup {call[c].key}
  <2>1. End(c) /\ \A q \in Pages : page'[q] = page[q] \/ (page[q].at = "waiting" /\ page[q].call = c)
    BY DEF AnswerWith
  <2> QED BY <2>1, EndStrays
<1>2. call[c].key \notin Strays'
  BY StrayNext
<1> QED BY <1>1, <1>2

LEMMA LookStrays ==
  ASSUME IInv, ServerKeys, NEW c \in Calls, Look(c)
  PROVE  Strays' \subseteq Strays
<1>1. UNCHANGED <<mode, store, files>> /\ call[c].at = "received" /\ call[c] \in Call
  BY Tables DEF Look
<1>2. CASE \E i \in Existing(call[c].key) : AnswerWith(c, i)
  <2> PICK i \in DOMAIN files : files[i].key = call[c].key /\ AnswerWith(c, i)
    BY <1>2 DEF Existing
  <2> QED BY <1>1, AnswerStrays
<1>3. CASE /\ UNCHANGED page
           /\ call' = [call EXCEPT ![c].at = "looked", ![c].seen = Len(files)]
  <2>1. call' \in [Calls -> Call] /\ \A d \in Calls \ {c} : call'[d] = call[d]
    BY <1>1, <1>3, Tables DEF IInv, TypeOK, Call
  <2>2. call'[c].at = "looked" /\ call'[c].key = call[c].key
    BY <1>1, <1>3 DEF IInv, TypeOK, Call
  <2> QED BY <1>1, <1>3, <2>1, <2>2, AdvanceStrays
<1> QED BY <1>2, <1>3 DEF Look

LEMMA VerifyStrays ==
  ASSUME IInv, NEW c \in Calls, verifyDirectUpload(c)
  PROVE  Strays' \subseteq Strays
<1> PICK o, v :
      /\ UNCHANGED <<store, files, page>>
      /\ call[c].at = "looked"
      /\ call' = [call EXCEPT ![c].at = "hashed", ![c].file = o, ![c].version = v]
  BY DEF verifyDirectUpload
<1>1. TypeOK'
  BY Verified DEF IInv
<1>2. call[c] \in Call /\ call' \in [Calls -> Call] /\ \A d \in Calls \ {c} : call'[d] = call[d]
  BY <1>1, Tables DEF IInv, TypeOK
<1>3. call'[c].at = "hashed" /\ call'[c].key = call[c].key
  BY <1>2 DEF IInv, TypeOK, Call
<1> QED BY <1>2, <1>3, AdvanceStrays

\* What is saved is the call's.
LEMMA SaveStrays ==
  ASSUME IInv, ServerKeys, NEW c \in Calls, save(c)
  PROVE  Strays' \subseteq Strays
<1> SUFFICES ASSUME NEW k \in Strays' PROVE k \in Strays
  OBVIOUS
<1> PICK n \in Nat : n = Len(store) + 1
  BY Tables
<1>1. /\ UNCHANGED <<files, page>>
      /\ mode = "server" /\ call[c].at = "received" /\ call[c] \in Call
      /\ \E o : store' = Append(store, o)
      /\ call' = [call EXCEPT ![c].at = "hashed", ![c].key = n, ![c].version = 1,
                              ![c].seen = Len(files)]
  BY Tables DEF save
<1>2. /\ call'[c].at = "hashed" /\ call'[c].key = n
      /\ \A d \in Calls \ {c} : call'[d] = call[d]
  BY <1>1 DEF IInv, TypeOK, Call
<1>3. k # n
  BY <1>2, IdleTypes, StrayNext DEF CallUses
<1>4. DOMAIN store = 1..Len(store) /\ DOMAIN store' = 1..n
  BY <1>1, Tables DEF IInv, TypeOK
<1>5. k \in DOMAIN store /\ k # 0
  BY <1>3, <1>4, StrayNext, Tables
<1>6. call[c].key = 0
  BY <1>1 DEF ServerKeys
<1>7. \A d \in Calls : ~CallUses(d, k)
  BY <1>2, <1>5, <1>6, StrayNext DEF CallUses
<1>8. \A q \in Pages : ~PageUses(q, k)
  BY <1>1, StrayNext DEF PageUses
<1> QED BY <1>1, <1>5, <1>7, <1>8, StrayNext, Stray

LEMMA RecordStrays ==
  ASSUME IInv, ServerKeys, NEW c \in Calls, createEvidenceRecord(c)
  PROVE  Strays' \subseteq Strays
<1> PICK n \in Nat : n = Len(files) + 1
  BY Tables
<1> PICK row : row = [key |-> call[c].key, by |-> call[c].by, sha |-> call[c].file,
                      version |-> call[c].version, seen |-> call[c].seen]
  OBVIOUS
<1>1. /\ UNCHANGED <<mode, store>>
      /\ call[c].at = "hashed"
      /\ files' = Append(files, row)
      /\ AnswerWith(c, n)
  BY DEF createEvidenceRecord, RowOf
<1>2. /\ n \in DOMAIN files' /\ files'[n] = row
      /\ \A j \in DOMAIN files : j \in DOMAIN files' /\ files'[j] = files[j]
  BY <1>1, Tables DEF IInv, TypeOK
<1> QED BY <1>1, <1>2, AnswerStrays

\* A call that dies leaves at most its object.
LEMMA DieStrays ==
  ASSUME IInv, ServerKeys, NEW c \in Calls, Die(c)
  PROVE  Strays' \subseteq Strays \cup {call[c].key} /\ faults' = faults + 1
<1>1. /\ UNCHANGED <<mode, store, files>>
      /\ call[c].at # "idle" /\ End(c) /\ faults' = faults + 1
      /\ \A q \in Pages : page'[q] = page[q] \/ (page[q].at = "waiting" /\ page[q].call = c)
  BY DEF Die
<1> QED BY <1>1, EndStrays

\* A put under a plan hands out no key.
LEMMA AgainStrays ==
  ASSUME IInv, NEW k \in DOMAIN store, NEW f \in Contents, PutAgain(k, f)
  PROVE  Strays' \subseteq Strays
<1> SUFFICES ASSUME NEW l \in Strays' PROVE l \in Strays
  OBVIOUS
<1>1. UNCHANGED <<files, page, call>> /\ DOMAIN store' = DOMAIN store
  BY Tables DEF PutAgain, Stored
<1>2. (\A q \in Pages : ~PageUses(q, l)) /\ (\A c \in Calls : ~CallUses(c, l))
  BY <1>1, StrayNext DEF PageUses, CallUses
<1> QED BY <1>1, <1>2, StrayNext, Stray

\* A step leaves no stray object behind, or one and a fault.
LEMMA StrayStep ==
  ASSUME IInv, ServerKeys, [Next]_vars
  PROVE  \/ Strays' \subseteq Strays /\ faults' \in {faults, faults + 1}
         \/ \E k : Strays' \subseteq Strays \cup {k} /\ faults' = faults + 1
<1>1. faults' \in {faults, faults + 1}
  BY DEF Next, PageStep, CallStep, Submit, prepareUpload, PutObject, Post, LoseAnswer, Look,
         verifyDirectUpload, save, createEvidenceRecord, Die, PutAgain, vars
<1>2. CASE \E p \in Pages : PageStep(p)
  BY <1>1, <1>2, SubmitStrays, PutStrays, PostStrays, LoseStrays DEF PageStep
<1>3. CASE \E c \in Calls : CallStep(c)
  BY <1>1, <1>3, LookStrays, VerifyStrays, SaveStrays, RecordStrays, DieStrays DEF CallStep
<1>4. CASE \E k \in DOMAIN store, f \in Contents : PutAgain(k, f)
  BY <1>1, <1>4, AgainStrays
<1>5. CASE UNCHANGED vars
  <2>1. UNCHANGED <<store, files, page, call>>
    BY <1>5 DEF vars
  <2>2. ASSUME NEW k \in Strays' PROVE k \in Strays
    BY <2>1, StrayNext, Stray DEF PageUses, CallUses
  <2> QED BY <1>1, <2>2
<1> QED BY <1>2, <1>3, <1>4, <1>5 DEF Next

LEMMA ServerKeysStep == IInv /\ ServerKeys /\ [Next]_vars => ServerKeys'
<1> SUFFICES ASSUME IInv, ServerKeys, [Next]_vars, mode' = "server"
             PROVE  /\ \A p \in Pages : page'[p].key = 0
                    /\ \A c \in Calls : call'[c].at = "received" => call'[c].key = 0
  BY DEF ServerKeys
<1>1. mode = "server"
  BY DEF Next, PageStep, CallStep, Submit, prepareUpload, PutObject, Post, LoseAnswer, Look,
         verifyDirectUpload, save, createEvidenceRecord, Die, PutAgain, vars
<1>2. /\ \A p \in Pages : page[p].key = 0 /\ page[p] \in Page
      /\ \A c \in Calls : call[c] \in Call /\ (call[c].at = "received" => call[c].key = 0)
      /\ page \in [Pages -> Page] /\ call \in [Calls -> Call]
  BY <1>1, Tables DEF ServerKeys, IInv, TypeOK
<1>i. IdlePage.key = 0 /\ IdleCall.key = 0
  BY DEF IdlePage, IdleCall
<1>3. ASSUME NEW p \in Pages, NEW f \in Contents, Submit(p, f)
      PROVE  /\ \A q \in Pages : page'[q].key = 0
             /\ call' = call
  BY <1>1, <1>2, <1>3 DEF Submit, prepareUpload
<1>4. ASSUME NEW p \in Pages, PutObject(p) PROVE FALSE
  BY <1>1, <1>4 DEF PutObject
<1>5. ASSUME NEW p \in Pages, NEW c \in Calls, Post(p, c)
      PROVE  /\ \A q \in Pages : page'[q].key = 0
             /\ \A d \in Calls : call'[d].at = "received" => call'[d].key = 0
  BY <1>1, <1>2, <1>5 DEF Post, Page
<1>6. ASSUME NEW p \in Pages, LoseAnswer(p)
      PROVE  /\ \A q \in Pages : page'[q].key = 0
             /\ call' = call
  BY <1>1, <1>2, <1>6 DEF LoseAnswer, Page
<1>7. ASSUME NEW c \in Calls, Look(c) \/ verifyDirectUpload(c) PROVE FALSE
  BY <1>1, <1>2, <1>7 DEF Look, verifyDirectUpload, IInv, CallStands, HashStands
<1>8. ASSUME NEW c \in Calls, save(c)
      PROVE  page' = page /\ \A d \in Calls : call'[d].at = "received" => call'[d].key = 0
  BY <1>1, <1>2, <1>8 DEF save, Call
<1>9. ASSUME NEW c \in Calls, End(c)
      PROVE  \A d \in Calls : call'[d].at = "received" => call'[d].key = 0
  BY <1>1, <1>2, <1>9, <1>i DEF End
<1>10. ASSUME NEW c \in Calls, createEvidenceRecord(c)
       PROVE  /\ \A q \in Pages : page'[q].key = 0
              /\ \A d \in Calls : call'[d].at = "received" => call'[d].key = 0
  BY <1>2, <1>9, <1>10, <1>i DEF createEvidenceRecord, AnswerWith
<1>11. ASSUME NEW c \in Calls, Die(c)
       PROVE  /\ \A q \in Pages : page'[q].key = 0
              /\ \A d \in Calls : call'[d].at = "received" => call'[d].key = 0
  BY <1>2, <1>9, <1>11 DEF Die, Page
<1>12. CASE UNCHANGED vars \/ \E k \in DOMAIN store, f \in Contents : PutAgain(k, f)
  BY <1>2, <1>12 DEF vars, PutAgain
<1> QED
  BY <1>2, <1>3, <1>4, <1>5, <1>6, <1>7, <1>8, <1>10, <1>11, <1>12 DEF Next, PageStep, CallStep

\* The strays are counted by the faults.
StraysCounted == IsFiniteSet(Strays) /\ Cardinality(Strays) <= faults

LEMMA StraysInit == Init => ServerKeys /\ StraysCounted
<1> SUFFICES ASSUME Init PROVE ServerKeys /\ StraysCounted
  OBVIOUS
<1>1. Strays = {}
  BY DEF Init, Strays
<1>2. StraysCounted
  BY <1>1, FS_EmptySet DEF StraysCounted, Init
<1>3. ServerKeys
  BY DEF Init, ServerKeys, IdlePage, IdleCall
<1> QED BY <1>2, <1>3

LEMMA StraysCountedStep == IInv /\ ServerKeys /\ StraysCounted /\ [Next]_vars => StraysCounted'
<1> SUFFICES ASSUME IInv, ServerKeys, StraysCounted, [Next]_vars
             PROVE  IsFiniteSet(Strays') /\ Cardinality(Strays') <= faults'
  BY DEF StraysCounted
<1>1. /\ IsFiniteSet(Strays) /\ Cardinality(Strays) <= faults
      /\ faults \in Nat /\ Cardinality(Strays) \in Nat
  BY FS_CardinalityType DEF StraysCounted, IInv, TypeOK
<1>2. CASE Strays' \subseteq Strays /\ faults' \in {faults, faults + 1}
  <2>1. IsFiniteSet(Strays') /\ Cardinality(Strays') <= Cardinality(Strays)
    BY <1>1, <1>2, FS_Subset
  <2>2. Cardinality(Strays') \in Nat
    BY <2>1, FS_CardinalityType
  <2> QED BY <1>1, <1>2, <2>1, <2>2
<1>3. ASSUME NEW k, Strays' \subseteq Strays \cup {k}, faults' = faults + 1
      PROVE  IsFiniteSet(Strays') /\ Cardinality(Strays') <= faults'
  <2>1. /\ IsFiniteSet(Strays \cup {k})
        /\ Cardinality(Strays \cup {k}) <= Cardinality(Strays) + 1
        /\ Cardinality(Strays \cup {k}) \in Nat
    <3>1. /\ IsFiniteSet(Strays \cup {k})
          /\ Cardinality(Strays \cup {k}) \in {Cardinality(Strays), Cardinality(Strays) + 1}
      BY <1>1, FS_AddElement
    <3> QED BY <1>1, <3>1
  <2>2. IsFiniteSet(Strays') /\ Cardinality(Strays') <= Cardinality(Strays \cup {k})
    BY <1>3, <2>1, FS_Subset
  <2>3. Cardinality(Strays') \in Nat
    BY <2>2, FS_CardinalityType
  <2> QED BY <1>1, <1>3, <2>1, <2>2, <2>3
<1> QED BY <1>2, <1>3, StrayStep

\* Objects that no record names and nobody is working on come from failures
\* only, one from each at most (OrphansComeFromFaults).
THEOREM OrphansComeFromFaultsAlways == Spec => []OrphansComeFromFaults
<1>1. IInv /\ StraysCounted => OrphansComeFromFaults
  <2> SUFFICES ASSUME IInv, StraysCounted
               PROVE  Cardinality({k \in Orphans : ~InProgress(k)}) <= faults
    BY DEF OrphansComeFromFaults
  <2> PICK some : some = {k \in Orphans : ~InProgress(k)}
    OBVIOUS
  <2>1. some \subseteq Strays
    BY DEF Orphans, Strays
  <2>2. IsFiniteSet(some) /\ Cardinality(some) <= Cardinality(Strays)
    BY <2>1, FS_Subset DEF StraysCounted
  <2>3. Cardinality(some) \in Nat /\ Cardinality(Strays) \in Nat /\ faults \in Nat
    BY <2>2, FS_CardinalityType DEF StraysCounted, IInv, TypeOK
  <2> QED BY <2>2, <2>3 DEF StraysCounted
<1> QED
  BY <1>1, StraysInit, StraysCountedStep, ServerKeysStep, Invariance, PTL DEF Spec

=============================================================================
