------------------------------ MODULE Evidence ------------------------------
(***************************************************************************)
(* How a file becomes evidence of one deal: the evidence panel of the web  *)
(* application (EvidencePanel.tsx), evidence.service.ts and the storage    *)
(* providers.                                                              *)
(*                                                                         *)
(* With Cloudinary configured the panel asks for an upload plan, puts the  *)
(* object itself and has the API register it (finalize); otherwise the API *)
(* takes the file, saves it and registers it.  Object and record live in   *)
(* two stores that no transaction spans.  Any answer can be lost, the      *)
(* proxy's 502 included, while the call goes on; any call can die.  The    *)
(* panel then shows an error, and submitting again makes a new object; a   *)
(* client may instead repeat the finalize, which the API expects.          *)
(*                                                                         *)
(* A plan is signed without overwrite: false, unlike what save sends, so   *)
(* while it is valid its key can be put again, with any file.              *)
(*                                                                         *)
(* A key holds a fresh UUID, so keys are numbers handed out once.  The     *)
(* hash of a content is the content.  A page stands for its party, whose   *)
(* role the session gives; sizes, kinds and names are left out.            *)
(***************************************************************************)
EXTENDS Integers, Sequences, FiniteSets

CONSTANTS
  Pages,      \* open evidence panels
  Calls,      \* finalize and upload calls that the API may have in flight
  Contents,   \* contents of files
  None,       \* no file, no call, no page
  MaxKeys,    \* bound: no submission begins with that many keys handed out
  MaxPuts,    \* bound: no key is put again that was put that often
  MaxFaults   \* bound: answers lost and calls that died

ASSUME NoneAssumption == None \notin Pages \cup Calls \cup Contents
ASSUME BoundsAssumption == MaxKeys \in Nat /\ MaxPuts \in Nat /\ MaxFaults \in Nat

VARIABLES
  mode,    \* the storage provider the API was started with
  store,   \* what was put under each key handed out, oldest first: the last is the object
  files,   \* the EvidenceFile rows, oldest first
  events,  \* how many evidence.uploaded events
  page,    \* for each page, how far its submission has come
  call,    \* for each call, how far it has come
  acked,   \* the submissions that were answered with a record
  faults   \* how many answers were lost and calls died
vars == <<mode, store, files, events, page, call, acked, faults>>

(* `panel': whether the submission put it that the key was handed out for. *)
Put == [file : Contents, panel : BOOLEAN]

(* No columns: `version', which of the puts the call hashed, and `seen',   *)
(* how many rows there were when the call looked for an existing one.      *)
Row == [key : Nat, by : Pages, sha : Contents, version : Nat, seen : Nat]
Page == [at : {"idle", "planned", "stored", "waiting", "lost"},
         file : Contents \cup {None}, key : Nat, call : Calls \cup {None}]
Call == [at : {"idle", "received", "looked", "hashed"}, by : Pages \cup {None}, key : Nat,
         file : Contents \cup {None}, version : Nat, seen : Nat]
Acknowledgement == [by : Pages, file : Contents, row : Nat]

IdlePage == [at |-> "idle", file |-> None, key |-> 0, call |-> None]
IdleCall == [at |-> "idle", by |-> None, key |-> 0, file |-> None, version |-> 0, seen |-> 0]

Init ==
  /\ mode \in {"direct", "server"}
  /\ store = <<>>
  /\ files = <<>>
  /\ events = 0
  /\ page = [p \in Pages |-> IdlePage]
  /\ call = [c \in Calls |-> IdleCall]
  /\ acked = {}
  /\ faults = 0

-----------------------------------------------------------------------------
(* The page.                                                               *)

\* prepareUpload: with direct upload a key of its own, signed for.
prepareUpload(p, f) ==
  /\ Len(store) < MaxKeys
  /\ \/ /\ mode = "direct"
        /\ store' = Append(store, <<>>)
        /\ page' = [page EXCEPT ![p] = [at |-> "planned", file |-> f, key |-> Len(store) + 1,
                                        call |-> None]]
     \/ /\ mode = "server"
        /\ page' = [page EXCEPT ![p] = [at |-> "planned", file |-> f, key |-> 0,
                                        call |-> None]]
        /\ UNCHANGED store
  /\ UNCHANGED <<mode, files, events, call, acked, faults>>

\* A submission, the first or one after an error.
Submit(p, f) == page[p].at \in {"idle", "lost"} /\ prepareUpload(p, f)

Stored(k, f, panel) == [store EXCEPT ![k] = Append(@, [file |-> f, panel |-> panel])]

\* The browser puts the object, and is told so; or the transfer fails, with
\* the object stored or not.
PutObject(p) ==
  /\ page[p].at = "planned"
  /\ mode = "direct"
  /\ \/ /\ store' = Stored(page[p].key, page[p].file, TRUE)
        /\ page' = [page EXCEPT ![p].at = "stored"]
        /\ UNCHANGED faults
     \/ /\ faults < MaxFaults
        /\ store' \in {store, Stored(page[p].key, page[p].file, TRUE)}
        /\ page' = [page EXCEPT ![p].at = "lost"]
        /\ faults' = faults + 1
  /\ UNCHANGED <<mode, files, events, call, acked>>

\* The key of a plan is put once more, by who has the plan: before the object
\* is read back, or after, or when it is on record.
PutAgain(k, f) ==
  /\ mode = "direct"
  /\ k \in DOMAIN store
  /\ Len(store[k]) < MaxPuts
  /\ store' = Stored(k, f, FALSE)
  /\ UNCHANGED <<mode, files, events, page, call, acked, faults>>

\* The page posts to the API, which receives the call.
Post(p, c) ==
  /\ call[c] = IdleCall
  /\ \/ mode = "direct" /\ page[p].at \in {"stored", "lost"}
     \/ mode = "server" /\ page[p].at = "planned"
  /\ call' = [call EXCEPT ![c] = [at |-> "received", by |-> p, key |-> page[p].key,
                                  file |-> page[p].file, version |-> 0, seen |-> 0]]
  /\ page' = [page EXCEPT ![p].at = "waiting", ![p].call = c]
  /\ UNCHANGED <<mode, store, files, events, acked, faults>>

\* The page stops waiting: the answer is lost, the call goes on.
LoseAnswer(p) ==
  /\ faults < MaxFaults
  /\ page[p].at = "waiting"
  /\ page' = [page EXCEPT ![p].at = "lost", ![p].call = None]
  /\ faults' = faults + 1
  /\ UNCHANGED <<mode, store, files, events, call, acked>>

-----------------------------------------------------------------------------
(* The API.                                                                *)

End(c) == call' = [call EXCEPT ![c] = IdleCall]

\* The answer: row i.  The page that waits for it, if any, shows it.
AnswerWith(c, i) ==
  LET waiting == {p \in Pages : page[p].at = "waiting" /\ page[p].call = c} IN
  /\ acked' = acked \cup {[by |-> p, file |-> page[p].file, row |-> i] : p \in waiting}
  /\ page' = [p \in Pages |->
       IF p \in waiting THEN IdlePage ELSE page[p]]
  /\ End(c)

\* Faulty variant: an existing record of any object will do.
ExistingOfDeal(key) == DOMAIN files

\* findFirst by storageUrl.
Existing(key) == {i \in DOMAIN files : files[i].key = key}

\* Faulty variant: a repeated finalize is not recognised.
LookBlindly(c) ==
  /\ mode = "direct"
  /\ call[c].at = "received"
  /\ call' = [call EXCEPT ![c].at = "looked", ![c].seen = Len(files)]
  /\ UNCHANGED <<mode, store, files, events, page, acked, faults>>

\* finalizeUpload looks for a record of the key and returns it if there is.
Look(c) ==
  /\ mode = "direct"
  /\ call[c].at = "received"
  /\ \/ \E i \in Existing(call[c].key) : AnswerWith(c, i)
     \/ /\ Existing(call[c].key) = {}
        /\ call' = [call EXCEPT ![c].at = "looked", ![c].seen = Len(files)]
        /\ UNCHANGED <<page, acked>>
  /\ UNCHANGED <<mode, store, files, events, faults>>

\* verifyDirectUpload reads the object back and hashes what it has read.
verifyDirectUpload(c) ==
  /\ call[c].at = "looked"
  /\ LET puts == store[call[c].key] IN
       /\ puts # <<>>
       /\ call' = [call EXCEPT ![c].at = "hashed", ![c].file = puts[Len(puts)].file,
                               ![c].version = Len(puts)]
  /\ UNCHANGED <<mode, store, files, events, page, acked, faults>>

\* Faulty variant: the save is not awaited, the hash is the buffer's anyway.
SaveUnawaited(c) ==
  /\ mode = "server"
  /\ call[c].at = "received"
  /\ \E stored \in {<<>>, <<[file |-> call[c].file, panel |-> TRUE]>>} :
       store' = Append(store, stored)
  /\ call' = [call EXCEPT ![c].at = "hashed", ![c].key = Len(store) + 1, ![c].version = 1,
                          ![c].seen = Len(files)]
  /\ UNCHANGED <<mode, files, events, page, acked, faults>>

\* upload: the provider saves under a new key and hashes the buffer.
save(c) ==
  /\ mode = "server"
  /\ call[c].at = "received"
  /\ store' = Append(store, <<[file |-> call[c].file, panel |-> TRUE]>>)
  /\ call' = [call EXCEPT ![c].at = "hashed", ![c].key = Len(store) + 1, ![c].version = 1,
                          ![c].seen = Len(files)]
  /\ UNCHANGED <<mode, files, events, page, acked, faults>>

RowOf(c) == [key |-> call[c].key, by |-> call[c].by, sha |-> call[c].file,
             version |-> call[c].version, seen |-> call[c].seen]

\* Faulty variant: what failed to be registered is reported as registered.
RecordOrNot(c) ==
  /\ call[c].at = "hashed"
  /\ \/ files' = Append(files, RowOf(c))
     \/ UNCHANGED files
  /\ events' = events + 1
  /\ AnswerWith(c, Len(files'))
  /\ UNCHANGED <<mode, store, faults>>

\* The row and its event, in one transaction; then the answer.
createEvidenceRecord(c) ==
  /\ call[c].at = "hashed"
  /\ files' = Append(files, RowOf(c))
  /\ events' = events + 1
  /\ AnswerWith(c, Len(files) + 1)
  /\ UNCHANGED <<mode, store, faults>>

\* The call fails or the process dies; who waits for it gets an error.
Die(c) ==
  /\ faults < MaxFaults
  /\ call[c].at # "idle"
  /\ End(c)
  /\ page' = [p \in Pages |->
       IF page[p].at = "waiting" /\ page[p].call = c
       THEN [page[p] EXCEPT !.at = "lost", !.call = None] ELSE page[p]]
  /\ faults' = faults + 1
  /\ UNCHANGED <<mode, store, files, events, acked>>

-----------------------------------------------------------------------------
PageStep(p) ==
  \/ \E f \in Contents : Submit(p, f)
  \/ PutObject(p)
  \/ \E c \in Calls : Post(p, c)
  \/ LoseAnswer(p)

CallStep(c) ==
  \/ Look(c)
  \/ verifyDirectUpload(c)
  \/ save(c)
  \/ createEvidenceRecord(c)
  \/ Die(c)

Next ==
  \/ \E p \in Pages : PageStep(p)
  \/ \E c \in Calls : CallStep(c)
  \/ \E k \in DOMAIN store, f \in Contents : PutAgain(k, f)

Spec == Init /\ [][Next]_vars

-----------------------------------------------------------------------------
(* Properties.                                                             *)

TypeOK ==
  /\ mode \in {"direct", "server"}
  /\ store \in Seq(Seq(Put))
  /\ files \in Seq(Row)
  /\ events \in Nat
  /\ page \in [Pages -> Page]
  /\ call \in [Calls -> Call]
  /\ acked \subseteq Acknowledgement
  /\ faults \in Nat

\* read and temporaryReadUrl: the object a row names.
Readable(row) == row.key \in DOMAIN store /\ store[row.key] # <<>>

\* The put that a row's hash is of.
Hashed(row) == store[row.key][row.version]

\* Evidence can be produced: whatever dies or is repeated, each record names
\* an object that is there; the recorded hash is of what was put under its key,
\* and of the object itself as long as nothing is put there after that, which
\* under a key that the API saved never happens.  Each record is on the audit
\* trail.
RecordsHaveTheirObjects ==
  /\ \A i \in DOMAIN files : LET row == files[i] IN
       /\ Readable(row)
       /\ row.version \in DOMAIN store[row.key] /\ Hashed(row).file = row.sha
       /\ mode = "server" => row.version = Len(store[row.key])
  /\ events = Len(files)

\* An answer means what the panel shows: a submission that was answered is on
\* record, as that party's, with the file that was submitted, unless what the
\* API read back had been put by another use of the plan.
AnsweredIsRecorded ==
  \A a \in acked :
    /\ a.row \in DOMAIN files /\ files[a.row].by = a.by
    /\ Hashed(files[a.row]).panel => files[a.row].sha = a.file

\* A repeated finalize makes a second record of the same object only if it
\* looked for the first before that committed.
OneRecordPerObject ==
  \A i, j \in DOMAIN files : i < j /\ files[i].key = files[j].key => files[j].seen < i

Orphans == {k \in DOMAIN store : store[k] # <<>> /\ Existing(k) = {}}
InProgress(k) ==
  \/ \E p \in Pages : page[p].at \in {"planned", "stored", "waiting"} /\ page[p].key = k
  \/ \E c \in Calls : call[c] # IdleCall /\ call[c].key = k

\* Objects that no record names come from failures only, one from each at
\* most: nothing the stores do in good order leaves a stray object.
OrphansComeFromFaults ==
  Cardinality({k \in Orphans : ~InProgress(k)}) <= faults

=============================================================================
