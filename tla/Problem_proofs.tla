--------------------------- MODULE Problem_proofs ---------------------------
(***************************************************************************)
(* The problem service: the judge revisions of a problem and the cache of  *)
(* problem pages, for any number of instances, calls, testcases and ids.   *)
(***************************************************************************)
EXTENDS ProblemStore, ProblemPages, TLAPS

-----------------------------------------------------------------------------
(***************************************************************************)
(* Judge revisions (ProblemStore).                                         *)
(*                                                                         *)
(* A revision that is handed out loads because its manifest is written     *)
(* after all its copies and under an id nobody else holds (IdsAreFresh),   *)
(* and because only the uploads are ever deleted, never the keys of a      *)
(* revision. A change loses no other one because the compare of the active *)
(* revision at its commit makes what it read before still true (UpToDate). *)
(***************************************************************************)

(* The shapes of the records. *)
NoneOr(S) == S \cup {None}
ProblemRecord == [status : {"absent", "normal", "archived"}, limits : Limits \cup {NoLimits}, active : NoneOr(Ids)]
CaseRecord == [status : {"none", "active", "archived"}, upload : NoneOr(Ids)]
Item == [no : CaseNos, upload : NoneOr(Ids)]
ManifestRecord == [limits : Limits \cup {NoLimits}, cases : SUBSET Item]
ChangeRecord ==
    [pc : {"idle", "uploading", "listing", "publishing", "committing", "unanswered", "next case", "cleaning"},
     op : {"none", "update", "add", "archive case", "create"}, base : ProblemRecord,
     limits : Limits \cup {NoLimits}, case : NoneOr(CaseNos), id : NoneOr(Ids),
     items : SUBSET Item, copied : SUBSET Item, todo : SUBSET CaseNos, stored : SUBSET NoneOr(Ids)]

ProblemShape ==
    /\ problem \in ProblemRecord /\ problem.active <= lastId
    /\ problem.status # "absent" => problem.limits # NoLimits
    /\ testcases \in [CaseNos -> CaseRecord]
    /\ manifests \in [Ids -> ManifestRecord]
    /\ lastId \in 0..MaxIds
    /\ call \in [Calls -> ChangeRecord]

(* What a call knows about itself.  It holds an id from the moment it has   *)
(* drawn it until it commits or gives up.                                   *)
Adding(r) == r.op \in {"add", "create"}
Holds(r) == \/ r.pc = "publishing"
            \/ r.pc = "listing" /\ Adding(r)
            \/ r.pc = "committing" /\ r.items # {}
Working(r) == r.pc \in {"uploading", "listing", "publishing", "committing"}

IdSound(r) ==
    /\ r.base.active <= lastId
    /\ Holds(r) => r.id \in 1..lastId

WorkSound(r) ==
    /\ r.base.status # "absent" => r.base.limits # NoLimits
    /\ Working(r) => r.limits # NoLimits /\ r.op # "none"
    /\ Working(r) /\ r.op # "update" => r.limits = r.base.limits /\ r.case \in CaseNos
    /\ r.pc = "next case" => r.op = "create"
    /\ r.pc = "publishing" => r.items # {}
    /\ r.pc = "committing" /\ r.items # {} => manifests[r.id] = [limits |-> r.limits, cases |-> r.items]
    /\ r.pc = "committing" /\ r.items = {} => ~Adding(r)
    /\ r.pc = "committing" /\ r.items = {} /\ r.op = "update" /\ r.base.active # None => r.limits = r.base.limits

CallSound(r) == IdSound(r) /\ WorkSound(r)

(* An id that a call holds is nobody else's: no other call holds it, and it *)
(* has never been active.                                                   *)
IdsAreFresh ==
    \A c \in Calls : Holds(call[c]) =>
      /\ call[c].id # problem.active
      /\ \A d \in Calls : call[c].id # call[d].base.active
      /\ \A d \in Calls : Holds(call[d]) /\ call[d].id = call[c].id => d = c

(* As long as the revision a call started from is active, the limits it     *)
(* read and the testcases it listed are the problem's.                      *)
Wanted(r) ==
    CASE Adding(r) -> ActiveCases \cup {[no |-> r.case, upload |-> r.id]}
      [] r.op = "archive case" -> {t \in ActiveCases : t.no # r.case}
      [] OTHER -> ActiveCases
UpToDate(r) ==
    problem.active # None /\ r.base.active = problem.active =>
      /\ r.base.limits = problem.limits
      /\ r.pc \in {"publishing", "committing"} /\ r.items # {} => r.items = Wanted(r)

(* A revision that can be committed, is active or was handed out loads. *)
RevisionsLoad ==
    /\ HandedOutIsLoadable /\ handedOut \subseteq Ids
    /\ \A c \in Calls : call[c].pc = "committing" /\ call[c].items # {} => Loads(call[c].id)

ProblemInv ==
    /\ ProblemShape /\ IdsAreFresh /\ RevisionsLoad
    /\ \A c \in Calls : CallSound(call[c]) /\ UpToDate(call[c])

-----------------------------------------------------------------------------
LEMMA ProblemIds ==
    /\ None \notin Ids /\ None \in Nat /\ MaxIds \in Nat /\ NoLimits \notin Limits
    /\ \A i \in NoneOr(Ids) : i \in Nat
    /\ \A i : i \in 1..MaxIds <=> i \in Ids
<1>1. MaxIds \in Nat /\ NoLimits \notin Limits
  BY ProblemAssumption DEF NoLimits
<1>2. None \notin Ids /\ None \in Nat
  BY <1>1 DEF None, Ids
<1>3. \A i \in NoneOr(Ids) : i \in Nat
  BY <1>1 DEF None, Ids, NoneOr
<1> QED
  BY <1>1, <1>2, <1>3 DEF Ids

LEMMA IdleIsSound ==
    ASSUME lastId \in Nat
    PROVE  Idle \in ChangeRecord /\ CallSound(Idle) /\ ~Holds(Idle) /\ Idle.base.active = None /\ Idle.pc = "idle"
<1>1. NoProblem \in ProblemRecord /\ NoProblem.active = None /\ NoProblem.status = "absent"
  BY DEF NoProblem, ProblemRecord, NoneOr
<1>2. Idle \in ChangeRecord
  BY <1>1 DEF Idle, ChangeRecord, NoneOr
<1>3. Idle.pc = "idle" /\ Idle.base = NoProblem
  BY DEF Idle
<1>4. ~Holds(Idle) /\ ~Working(Idle)
  BY <1>3 DEF Holds, Working
<1>5. IdSound(Idle)
  BY <1>1, <1>3, <1>4 DEF IdSound, None
<1>6. WorkSound(Idle)
  BY <1>1, <1>3, <1>4 DEF WorkSound
<1> QED
  BY <1>1, <1>2, <1>3, <1>4, <1>5, <1>6 DEF CallSound

LEMMA ProblemStart == ProblemInit => ProblemInv
<1> SUFFICES ASSUME ProblemInit PROVE ProblemInv
  OBVIOUS
<1>1. /\ problem = NoProblem /\ testcases = [n \in CaseNos |-> NoCase] /\ manifests = [r \in Ids |-> NoManifest]
      /\ lastId = 0 /\ call = [c \in Calls |-> Idle] /\ handedOut = {}
  BY DEF ProblemInit
<1>2. NoProblem \in ProblemRecord /\ NoProblem.active = None /\ NoProblem.status = "absent"
  BY DEF NoProblem, ProblemRecord, NoneOr
<1>3. NoCase \in CaseRecord /\ NoManifest \in ManifestRecord
  BY DEF NoCase, CaseRecord, NoManifest, ManifestRecord, NoneOr
<1>4. 0 \in 0..MaxIds /\ None <= 0 /\ lastId \in Nat
  BY <1>1, ProblemIds DEF None
<1>5. ProblemShape
  BY <1>1, <1>2, <1>3, <1>4, IdleIsSound DEF ProblemShape
<1>6. IdsAreFresh /\ \A c \in Calls : CallSound(call[c])
  BY <1>1, <1>4, IdleIsSound DEF IdsAreFresh
<1>7. RevisionsLoad
  BY <1>1, <1>2, <1>4, IdleIsSound DEF RevisionsLoad, HandedOutIsLoadable
<1>8. \A c \in Calls : UpToDate(call[c])
  BY <1>1, <1>2 DEF UpToDate
<1> QED
  BY <1>5, <1>6, <1>7, <1>8 DEF ProblemInv

(* The keys of uploads and of revisions never meet. *)
LEMMA KeysDiffer == \A id, rev, t : UploadKey(id) # RevisionKey(rev, t)
  BY DEF UploadKey, RevisionKey

RevisionsStay == \A rev, t : RevisionKey(rev, t) \in objects => RevisionKey(rev, t) \in objects'

LEMMA LoadsOn ==
    ASSUME RevisionsStay, NEW rev, manifests'[rev] = manifests[rev], Loads(rev)
    PROVE  Loads(rev)'
  BY DEF RevisionsStay, Loads, RevisionKey

LEMMA SoundOn ==
    ASSUME NEW r \in ChangeRecord, CallSound(r), lastId \in Nat, lastId' \in Nat, lastId' >= lastId,
           r.pc = "committing" /\ r.items # {} => manifests'[r.id] = manifests[r.id]
    PROVE  CallSound(r)'
<1>1. r.base.active \in Nat
  BY ProblemIds DEF ChangeRecord, ProblemRecord
<1>2. IdSound(r)'
  BY <1>1 DEF CallSound, IdSound
<1>3. WorkSound(r)'
  BY DEF CallSound, WorkSound
<1> QED
  BY <1>2, <1>3 DEF CallSound

LoadsStay == \A rev : Loads(rev) => Loads(rev)'
OthersKeep(c) == \A d \in Calls \ {c} : Holds(call[d]) => manifests'[call[d].id] = manifests[call[d].id]

(* A step in which one call goes on and the problem and its testcases       *)
(* stay: the id it holds afterwards is its own or a new one, and  *)
(* the problem it starts from is the one it knew or the present one.        *)
LEMMA CallMakesProgress ==
    ASSUME ProblemInv, NEW c \in Calls, NEW r \in ChangeRecord, call' = [call EXCEPT ![c] = r],
           UNCHANGED <<problem, testcases, handedOut>>, LoadsStay, OthersKeep(c),
           manifests' \in [Ids -> ManifestRecord],
           lastId' \in 0..MaxIds, lastId' >= lastId, CallSound(r)', UpToDate(r)',
           r.base = call[c].base \/ r.base = problem \/ r.base.active = None,
           Holds(r) => (Holds(call[c]) /\ r.id = call[c].id) \/ r.id > lastId,
           r.pc = "committing" /\ r.items # {} => Loads(r.id)'
    PROVE  ProblemInv'
<1>1. /\ lastId \in Nat /\ lastId' \in Nat /\ call \in [Calls -> ChangeRecord] /\ problem \in ProblemRecord
      /\ problem.active <= lastId /\ problem.active \in Nat
  BY ProblemIds DEF ProblemInv, ProblemShape, ProblemRecord
<1>2. ProblemShape'
  BY <1>1 DEF ProblemInv, ProblemShape
<1>3. call'[c] = r /\ \A d \in Calls \ {c} : call'[d] = call[d]
  BY <1>1
<1>4. \A d \in Calls : call[d].base.active \in Nat /\ call[d].base.active <= lastId /\ call[d].id \in Nat
  BY <1>1, ProblemIds DEF ProblemInv, CallSound, IdSound, ChangeRecord, ProblemRecord
<1>5. r.base.active \in Nat /\ r.id \in Nat
  BY ProblemIds DEF ChangeRecord, ProblemRecord
<1>6. IdsAreFresh'
  <2>1. \A d \in Calls : Holds(call[d]) => call[d].id <= lastId
    BY <1>1 DEF ProblemInv, CallSound, IdSound
  <2>2. \A e \in Calls : call'[e].base.active \in {call[e].base.active, problem.active, None}
    BY <1>3
  <2>3. ASSUME NEW d \in Calls, Holds(call'[d])
        PROVE  /\ call'[d].id # problem.active
               /\ \A e \in Calls : call'[d].id # call'[e].base.active
               /\ \A e \in Calls : Holds(call'[e]) /\ call'[e].id = call'[d].id => e = d
    <3>1. call'[d].id # None /\ call'[d].id \in Nat
      <4>1. call'[d].id \in 1..lastId'
        BY <1>1, <1>3, <1>4, <2>3 DEF ProblemInv, CallSound, IdSound
      <4> QED
        BY <1>1, <4>1 DEF None
    <3>2. CASE (Holds(call[d]) /\ call'[d].id = call[d].id)
      <4>1. /\ call[d].id # problem.active /\ \A e \in Calls : call[d].id # call[e].base.active
            /\ \A e \in Calls : Holds(call[e]) /\ call[e].id = call[d].id => e = d
        BY <3>2 DEF ProblemInv, IdsAreFresh
      <4>2. \A e \in Calls : Holds(call'[e]) /\ call'[e].id = call'[d].id => e = d
        BY <1>3, <1>4, <1>1, <2>1, <3>2, <4>1
      <4> QED
        BY <2>2, <3>1, <3>2, <4>1, <4>2
    <3>3. CASE d = c /\ r.id > lastId
      <4>1. call'[d].id = r.id
        BY <1>3, <3>3
      <4>2. \A e \in Calls \ {c} : Holds(call'[e]) => call'[e].id # r.id
        BY <1>1, <1>3, <1>4, <1>5, <2>1, <3>3
      <4>3. r.id # problem.active
        BY <1>1, <1>5, <3>3
      <4>4. \A e \in Calls : r.id # call[e].base.active
        BY <1>1, <1>4, <1>5, <3>3
      <4> QED
        BY <2>2, <3>1, <3>3, <4>1, <4>2, <4>3, <4>4
    <3> QED
      BY <1>3, <2>3, <3>2, <3>3
  <2> QED
    BY <2>3 DEF IdsAreFresh, Holds, Adding
<1>7. ASSUME NEW d \in Calls PROVE CallSound(call[d])' /\ UpToDate(call[d])'
  <2>1. CASE d = c
    BY <1>3, <2>1 DEF CallSound, IdSound, WorkSound, UpToDate, Wanted, ActiveCases
  <2>2. CASE d # c
    <3>1. PICK q \in ChangeRecord : q = call[d] /\ CallSound(q) /\ UpToDate(q)
      BY <1>1 DEF ProblemInv
    <3>2. CallSound(q)'
      <4>1. q.pc = "committing" /\ q.items # {} => manifests'[q.id] = manifests[q.id]
        BY <2>2, <3>1 DEF OthersKeep, Holds
      <4> QED
        BY <1>1, <3>1, <4>1, SoundOn
    <3>3. UpToDate(q)'
      BY <3>1 DEF UpToDate, Wanted, ActiveCases
    <3>4. call'[d] = q
      BY <1>3, <2>2, <3>1
    <3> QED
      BY <3>2, <3>3, <3>4 DEF CallSound, IdSound, WorkSound, UpToDate, Wanted, ActiveCases
  <2> QED
    BY <2>1, <2>2
<1>8. RevisionsLoad'
  <2>1. HandedOutIsLoadable'
    BY DEF ProblemInv, RevisionsLoad, HandedOutIsLoadable, LoadsStay
  <2>2. ASSUME NEW d \in Calls, call'[d].pc = "committing", call'[d].items # {} PROVE Loads(call[d].id)'
    <3>1. PICK i : i = call'[d].id
      OBVIOUS
    <3>2. Loads(i)'
      BY <1>3, <2>2, <3>1 DEF ProblemInv, RevisionsLoad, LoadsStay
    <3> QED
      BY <3>1, <3>2 DEF Loads, RevisionKey
  <2> QED
    BY <2>1, <2>2 DEF ProblemInv, RevisionsLoad
<1> QED
  BY <1>2, <1>6, <1>7, <1>8 DEF ProblemInv

LEMMA CallGoesOn ==
    ASSUME ProblemInv, NEW c \in Calls, NEW r \in ChangeRecord, call' = [call EXCEPT ![c] = r],
           UNCHANGED <<problem, testcases, manifests, handedOut>>, RevisionsStay,
           lastId' \in 0..MaxIds, lastId' >= lastId, CallSound(r)', UpToDate(r)',
           r.base = call[c].base \/ r.base = problem \/ r.base.active = None,
           Holds(r) => (Holds(call[c]) /\ r.id = call[c].id) \/ r.id > lastId,
           r.pc = "committing" /\ r.items # {} => Loads(r.id)
    PROVE  ProblemInv'
<1>1. LoadsStay
  BY LoadsOn DEF LoadsStay
<1>2. OthersKeep(c) /\ manifests' \in [Ids -> ManifestRecord]
  BY DEF OthersKeep, ProblemInv, ProblemShape
<1>3. r.pc = "committing" /\ r.items # {} => Loads(r.id)'
  BY <1>1 DEF LoadsStay
<1> QED
  BY <1>1, <1>2, <1>3, CallMakesProgress

-----------------------------------------------------------------------------
LEMMA ProblemFacts ==
    ASSUME ProblemInv
    PROVE  /\ lastId \in Nat /\ lastId \in 0..MaxIds /\ lastId >= lastId
           /\ problem \in ProblemRecord /\ problem.active \in Nat /\ problem.active <= lastId
           /\ problem.status # "absent" => problem.limits # NoLimits
           /\ call \in [Calls -> ChangeRecord]
           /\ \A c \in Calls : call[c] \in ChangeRecord /\ CallSound(call[c]) /\ UpToDate(call[c])
  BY ProblemIds DEF ProblemInv, ProblemShape, ProblemRecord

LEMMA LoadableCommit ==
    ASSUME ProblemInv, NEW c \in Calls, call[c].pc = "committing", call[c].items # {}
    PROVE  Loads(call[c].id)
  BY DEF ProblemInv, RevisionsLoad

LEMMA ObjectsGrow == ASSUME objects \subseteq objects' PROVE RevisionsStay
  BY DEF RevisionsStay

(* Update, AddTestcase and ArchiveTestcase start from the present problem. *)
LEMMA BeginKeeps ==
    ASSUME ProblemInv, NEW c \in Calls, NEW i \in Instances,
           NEW op \in {"update", "add", "archive case"}, NEW limits \in Limits \cup {NoLimits},
           NEW n \in NoneOr(CaseNos), Begin(c, i, op, limits, n),
           op = "update" => limits \in Limits,
           op # "update" => limits = problem.limits /\ n \in CaseNos
    PROVE  ProblemInv'
<1>1. PICK pc \in {"uploading", "listing"} : pc = IF op = "add" THEN "uploading" ELSE "listing"
  OBVIOUS
<1>2. PICK b \in ProblemRecord : b = problem
  BY ProblemFacts
<1>3. PICK r : r = [Idle EXCEPT !.pc = pc, !.op = op, !.base = b, !.limits = limits, !.case = n]
  OBVIOUS
<1>4. /\ problem.status = "normal"
      /\ UNCHANGED <<problem, testcases, objects, manifests, lastId, handedOut>>
      /\ call' = [call EXCEPT ![c] = r]
  BY <1>1, <1>2, <1>3 DEF Begin
<1>5. Idle \in ChangeRecord
  BY ProblemFacts, IdleIsSound
<1>6. r \in ChangeRecord /\ r.pc = pc /\ r.op = op /\ r.base = problem /\ r.limits = limits /\ r.case = n
  BY <1>1, <1>2, <1>3, <1>5 DEF ChangeRecord, Idle
<1>7. ~Holds(r) /\ r.pc \notin {"publishing", "committing", "next case"} /\ op # "none"
  BY <1>1, <1>6 DEF Holds, Adding
<1>8. r.limits # NoLimits
  BY <1>4, <1>6, ProblemIds, ProblemFacts
<1>9. CallSound(r)'
  BY <1>4, <1>6, <1>7, <1>8, ProblemFacts DEF CallSound, IdSound, WorkSound
<1>10. UpToDate(r)'
  BY <1>4, <1>6, <1>7 DEF UpToDate
<1> QED
  BY <1>4, <1>6, <1>7, <1>9, <1>10, ProblemFacts, ObjectsGrow, CallGoesOn

LEMMA BeginningsKeep ==
    ASSUME ProblemInv, NEW c \in Calls,
           \/ \E i \in Instances, l \in Limits : Update(c, i, l)
           \/ \E i \in Instances, n \in CaseNos : AddTestcase(c, i, n) \/ ArchiveTestcase(c, i, n)
    PROVE  ProblemInv'
<1>1. problem.limits \in Limits \cup {NoLimits}
  BY ProblemFacts DEF ProblemRecord
<1>2. ASSUME NEW i \in Instances, NEW l \in Limits, Update(c, i, l) PROVE ProblemInv'
  BY <1>2, BeginKeeps DEF Update, NoneOr
<1>3. ASSUME NEW i \in Instances, NEW n \in CaseNos, AddTestcase(c, i, n) PROVE ProblemInv'
  BY <1>1, <1>3, BeginKeeps DEF AddTestcase, NoneOr
<1>4. ASSUME NEW i \in Instances, NEW n \in CaseNos, ArchiveTestcase(c, i, n) PROVE ProblemInv'
  BY <1>1, <1>4, BeginKeeps DEF ArchiveTestcase, NoneOr
<1> QED
  BY <1>2, <1>3, <1>4

LEMMA NextCaseKeeps == ASSUME ProblemInv, NEW c \in Calls, NextCase(c) PROVE ProblemInv'
<1>1. PICK p \in ChangeRecord : p = call[c] /\ CallSound(p) /\ UpToDate(p)
  BY ProblemFacts
<1>2. PICK b \in ProblemRecord : b = IF call[c].stored = {} THEN call[c].base ELSE problem
  BY ProblemFacts DEF ChangeRecord
<1>3. /\ p.pc = "next case" /\ b.status # "absent"
      /\ UNCHANGED <<problem, testcases, objects, manifests, lastId, mutex, handedOut>>
  BY <1>1, <1>2 DEF NextCase, At
<1>4. PICK n \in p.todo :
        call' = [call EXCEPT ![c].pc = "uploading", ![c].case = n, ![c].todo = @ \ {n},
                             ![c].base = b, ![c].limits = b.limits]
  BY <1>1, <1>2 DEF NextCase
<1>5. PICK todo \in SUBSET CaseNos : todo = p.todo \ {n}
  BY DEF ChangeRecord
<1>6. PICK l \in Limits \cup {NoLimits} : l = b.limits
  BY DEF ProblemRecord
<1>7. PICK r : r = [p EXCEPT !.pc = "uploading", !.case = n, !.todo = todo, !.base = b, !.limits = l]
  OBVIOUS
<1>8. n \in CaseNos /\ n \in NoneOr(CaseNos)
  BY DEF ChangeRecord, NoneOr
<1>9. r \in ChangeRecord /\ r.pc = "uploading" /\ r.op = p.op /\ r.base = b /\ r.limits = l /\ r.case = n
  BY <1>7, <1>8 DEF ChangeRecord
<1>10. call' = [call EXCEPT ![c] = r]
  BY <1>1, <1>4, <1>5, <1>6, <1>7, ProblemFacts
<1>11. b = p.base \/ b = problem
  BY <1>1, <1>2
<1>12. b.active <= lastId /\ b.limits # NoLimits
  BY <1>1, <1>3, <1>11, ProblemFacts DEF CallSound, IdSound, WorkSound
<1>13. ~Holds(r) /\ r.pc \notin {"publishing", "committing", "next case"}
  BY <1>9 DEF Holds
<1>14. p.op # "none"
  BY <1>1, <1>3 DEF CallSound, WorkSound
<1>15. CallSound(r)'
  BY <1>3, <1>6, <1>8, <1>9, <1>12, <1>13, <1>14 DEF CallSound, IdSound, WorkSound
<1>16. UpToDate(r)'
  BY <1>1, <1>3, <1>9, <1>11, <1>13 DEF UpToDate
<1> QED
  BY <1>1, <1>3, <1>9, <1>10, <1>11, <1>13, <1>15, <1>16, ProblemFacts, ObjectsGrow, CallGoesOn

LEMMA UploadKeeps == ASSUME ProblemInv, NEW c \in Calls, Upload(c) PROVE ProblemInv'
<1>1. PICK p \in ChangeRecord : p = call[c] /\ CallSound(p) /\ UpToDate(p)
  BY ProblemFacts
<1>2. PICK i : i = lastId + 1
  OBVIOUS
<1>3. /\ p.pc = "uploading" /\ lastId < MaxIds /\ lastId' = i /\ objects \subseteq objects'
      /\ call' = [call EXCEPT ![c].pc = "listing", ![c].id = i]
      /\ UNCHANGED <<problem, testcases, manifests, mutex, handedOut>>
  BY <1>1, <1>2 DEF Upload, At
<1>4. i \in NoneOr(Ids) /\ i \in Nat /\ i > lastId /\ lastId' \in 0..MaxIds /\ lastId' >= lastId /\ i \in 1..lastId'
  BY <1>2, <1>3, ProblemIds, ProblemFacts DEF NoneOr
<1>5. PICK r : r = [p EXCEPT !.pc = "listing", !.id = i]
  OBVIOUS
<1>6. /\ r \in ChangeRecord /\ r.pc = "listing" /\ r.op = p.op /\ r.base = p.base /\ r.limits = p.limits
      /\ r.case = p.case /\ r.id = i
  BY <1>4, <1>5 DEF ChangeRecord
<1>7. call' = [call EXCEPT ![c] = r]
  BY <1>1, <1>3, <1>5, ProblemFacts
<1>8. Working(p) /\ Working(r)
  BY <1>3, <1>6 DEF Working
<1>9. IdSound(r)'
  <2>1. p.base.active <= lastId /\ p.base.active \in Nat /\ lastId \in Nat
    BY <1>1, ProblemFacts, ProblemIds DEF CallSound, IdSound, ChangeRecord, ProblemRecord
  <2>2. lastId' \in Nat
    BY <1>3, <1>4
  <2> QED
    BY <1>4, <1>6, <2>1, <2>2 DEF IdSound
<1>10. WorkSound(r)'
  BY <1>1, <1>3, <1>6, <1>8 DEF CallSound, WorkSound
<1>11. UpToDate(r)'
  BY <1>1, <1>3, <1>6 DEF UpToDate
<1> QED
  BY <1>1, <1>3, <1>4, <1>6, <1>7, <1>9, <1>10, <1>11, ObjectsGrow, CallGoesOn DEF CallSound

LEMMA ActiveCasesShape == ASSUME ProblemInv PROVE ActiveCases \subseteq Item
<1>1. ASSUME NEW n \in CaseNos PROVE [no |-> n, upload |-> testcases[n].upload] \in Item
  BY DEF ProblemInv, ProblemShape, CaseRecord, Item
<1> QED
  BY <1>1 DEF ActiveCases

LEMMA ListKeeps == ASSUME ProblemInv, NEW c \in Calls, ListTestcases(c) PROVE ProblemInv'
<1>1. PICK p \in ChangeRecord : p = call[c] /\ CallSound(p) /\ UpToDate(p)
  BY ProblemFacts
<1>2. PICK items : items = Wanted(p)
  OBVIOUS
<1>3. Items(c) = items /\ (Adds(c) <=> Adding(p))
  BY <1>1, <1>2 DEF Items, Wanted, Adds, Adding
<1>4. PICK publish \in BOOLEAN : publish <=> Publishes(c) /\ items # {}
  OBVIOUS
<1>5. PICK id : id = IF Adding(p) THEN p.id ELSE lastId + 1
  OBVIOUS
<1>6. /\ p.pc = "listing" /\ (publish => id \in Ids)
      /\ p.op = "update" /\ Publishes(c) /\ items = {} => p.base.active = None
      /\ lastId' = (IF publish /\ id > lastId THEN id ELSE lastId)
      /\ UNCHANGED <<problem, testcases, objects, manifests, mutex, handedOut>>
  BY <1>1, <1>3, <1>4, <1>5 DEF ListTestcases, At
<1>7. PICK r : r = [p EXCEPT !.pc = IF publish THEN "publishing" ELSE "committing",
                             !.id = IF publish THEN id ELSE None,
                             !.items = IF publish THEN items ELSE {},
                             !.todo = IF Adding(p) THEN p.todo ELSE {}]
  OBVIOUS
<1>8. call' = [call EXCEPT ![c] = r]
  BY <1>1, <1>3, <1>4, <1>5, <1>7, ProblemFacts DEF ListTestcases
<1>9. Working(p) /\ p.limits # NoLimits /\ p.op # "none" /\ (p.op # "update" => p.limits = p.base.limits /\ p.case \in CaseNos)
  BY <1>1, <1>6 DEF Working, CallSound, WorkSound
<1>10. items \subseteq Item
  <2>1. CASE Adding(p)
    <3>1. p.case \in CaseNos /\ p.id \in NoneOr(Ids)
      BY <1>9, <2>1 DEF Adding, ChangeRecord
    <3>2. [no |-> p.case, upload |-> p.id] \in Item
      BY <3>1 DEF Item
    <3>3. items = ActiveCases \cup {[no |-> p.case, upload |-> p.id]}
      BY <1>2, <2>1 DEF Wanted, Adding
    <3> QED
      BY <3>2, <3>3, ActiveCasesShape
  <2>2. CASE ~Adding(p)
    BY <1>2, <2>2, ActiveCasesShape DEF Wanted
  <2> QED
    BY <2>1, <2>2
<1>11. Adding(p) => publish
  BY <1>1, <1>2, <1>4 DEF Adding, Wanted, Publishes
<1>12. Adding(p) => p.id \in 1..lastId
  BY <1>1, <1>6 DEF CallSound, IdSound, Holds
<1>13. id \in Nat /\ lastId' \in 0..MaxIds /\ lastId' >= lastId /\ lastId' \in Nat /\ (publish => id \in 1..lastId')
  BY <1>5, <1>6, <1>12, ProblemIds, ProblemFacts
<1>14. CASE publish
  <2>1. /\ r \in ChangeRecord /\ r.pc = "publishing" /\ r.op = p.op /\ r.base = p.base /\ r.limits = p.limits
        /\ r.case = p.case /\ r.id = id /\ r.items = items
    BY <1>6, <1>7, <1>10, <1>14 DEF ChangeRecord, NoneOr
  <2>2. items # {}
    BY <1>4, <1>14
  <2>3. IdSound(r)'
    <3>1. p.base.active <= lastId /\ p.base.active \in Nat /\ lastId \in Nat
      BY <1>1, ProblemFacts, ProblemIds DEF CallSound, IdSound, ChangeRecord, ProblemRecord
    <3> QED
      BY <1>13, <1>14, <2>1, <3>1 DEF IdSound
  <2>4. WorkSound(r)'
    BY <1>1, <1>9, <2>1, <2>2 DEF CallSound, WorkSound
  <2>5. Wanted(r)' = items
    <3>1. Adding(r) <=> Adding(p)
      BY <2>1 DEF Adding
    <3>2. Adding(p) => r.id = p.id
      BY <1>5, <2>1
    <3> QED
      BY <1>2, <1>6, <2>1, <3>1, <3>2 DEF Wanted, ActiveCases, Adding
  <2>6. UpToDate(r)'
    BY <1>1, <1>6, <2>1, <2>5 DEF UpToDate
  <2>7. (Holds(call[c]) /\ r.id = call[c].id) \/ r.id > lastId
    <3>1. CASE Adding(p)
      BY <1>1, <1>5, <1>6, <2>1, <3>1 DEF Holds
    <3>2. CASE ~Adding(p)
      BY <1>5, <2>1, <3>2, ProblemFacts
    <3> QED
      BY <3>1, <3>2
  <2>8. r.pc # "committing"
    BY <2>1
  <2> QED
    BY <1>1, <1>6, <1>8, <1>13, <2>1, <2>3, <2>4, <2>6, <2>7, <2>8, ObjectsGrow, CallGoesOn DEF CallSound
<1>15. CASE ~publish
  <2>1. /\ r \in ChangeRecord /\ r.pc = "committing" /\ r.op = p.op /\ r.base = p.base /\ r.limits = p.limits
        /\ r.case = p.case /\ r.items = {}
    BY <1>7, <1>15 DEF ChangeRecord, NoneOr
  <2>2. ~Holds(r) /\ ~Adding(r)
    BY <1>11, <1>15, <2>1 DEF Holds, Adding
  <2>3. r.op = "update" /\ r.base.active # None => r.limits = r.base.limits
    BY <1>1, <1>4, <1>6, <1>15, <2>1 DEF Publishes
  <2>4. IdSound(r)'
    <3>1. p.base.active <= lastId /\ p.base.active \in Nat /\ lastId \in Nat
      BY <1>1, ProblemFacts, ProblemIds DEF CallSound, IdSound, ChangeRecord, ProblemRecord
    <3> QED
      BY <1>13, <2>1, <2>2, <3>1 DEF IdSound
  <2>5. WorkSound(r)'
    BY <1>1, <1>9, <2>1, <2>2, <2>3 DEF CallSound, WorkSound
  <2>6. UpToDate(r)'
    BY <1>1, <1>6, <2>1 DEF UpToDate
  <2> QED
    BY <1>1, <1>6, <1>8, <1>13, <2>1, <2>2, <2>4, <2>5, <2>6, ObjectsGrow, CallGoesOn DEF CallSound
<1> QED
  BY <1>14, <1>15

LEMMA CopyKeeps == ASSUME ProblemInv, NEW c \in Calls, CopyTestcase(c) PROVE ProblemInv'
<1>1. PICK p \in ChangeRecord : p = call[c] /\ CallSound(p) /\ UpToDate(p)
  BY ProblemFacts
<1>2. /\ p.pc = "publishing"
      /\ UNCHANGED <<problem, testcases, objects, manifests, lastId, mutex, handedOut>>
  BY <1>1 DEF CopyTestcase, At
<1>3. PICK t \in p.items : call' = [call EXCEPT ![c].copied = @ \cup {t}]
  BY <1>1 DEF CopyTestcase
<1>4. PICK copied \in SUBSET Item : copied = p.copied \cup {t}
  BY DEF ChangeRecord
<1>5. PICK r : r = [p EXCEPT !.copied = copied]
  OBVIOUS
<1>6. /\ r \in ChangeRecord /\ r.pc = p.pc /\ r.op = p.op /\ r.base = p.base /\ r.limits = p.limits
      /\ r.case = p.case /\ r.id = p.id /\ r.items = p.items
  BY <1>5 DEF ChangeRecord
<1>7. call' = [call EXCEPT ![c] = r]
  BY <1>1, <1>3, <1>4, <1>5, ProblemFacts
<1>8. (Holds(r) <=> Holds(p)) /\ (Working(r) <=> Working(p)) /\ (Adding(r) <=> Adding(p))
  BY <1>6 DEF Holds, Working, Adding
<1>9. CallSound(r)'
  BY <1>1, <1>2, <1>6, <1>8 DEF CallSound, IdSound, WorkSound
<1>10. UpToDate(r)'
  <2>1. ActiveCases' = ActiveCases
    BY <1>2 DEF ActiveCases
  <2>2. Wanted(r)' = Wanted(p)
    BY <1>6, <1>8, <2>1 DEF Wanted, Adding
  <2> QED
    BY <1>1, <1>2, <1>6, <2>2 DEF UpToDate
<1> QED
  BY <1>1, <1>2, <1>6, <1>7, <1>8, <1>9, <1>10, ProblemFacts, ObjectsGrow, CallGoesOn

LEMMA PutManifestKeeps == ASSUME ProblemInv, NEW c \in Calls, PutManifest(c) PROVE ProblemInv'
<1>1. PICK p \in ChangeRecord : p = call[c] /\ CallSound(p) /\ UpToDate(p)
  BY ProblemFacts
<1>2. PICK m : m = [limits |-> p.limits, cases |-> p.items]
  OBVIOUS
<1>3. /\ p.pc = "publishing" /\ p.copied = p.items
      /\ manifests' = [manifests EXCEPT ![p.id] = m]
      /\ objects' = objects \cup {RevisionKey(p.id, t) : t \in p.items}
      /\ call' = [call EXCEPT ![c].pc = "committing", ![c].copied = {}]
      /\ UNCHANGED <<problem, testcases, lastId, mutex, handedOut>>
  BY <1>1, <1>2 DEF PutManifest, At, AllCopied
<1>4. PICK r : r = [p EXCEPT !.pc = "committing", !.copied = {}]
  OBVIOUS
<1>5. /\ r \in ChangeRecord /\ r.pc = "committing" /\ r.op = p.op /\ r.base = p.base /\ r.limits = p.limits
      /\ r.case = p.case /\ r.id = p.id /\ r.items = p.items
  BY <1>4 DEF ChangeRecord
<1>6. call' = [call EXCEPT ![c] = r]
  BY <1>1, <1>3, <1>4, ProblemFacts
<1>7. Holds(p) /\ Holds(r) /\ Working(p) /\ Working(r) /\ (Adding(r) <=> Adding(p)) /\ p.items # {} /\ p.limits # NoLimits
  BY <1>1, <1>3, <1>5 DEF Holds, Working, Adding, CallSound, WorkSound
<1>8. p.id \in Ids
  <2>1. p.id \in 1..lastId
    BY <1>1, <1>7 DEF CallSound, IdSound
  <2>2. p.id \in 1..MaxIds
    BY <2>1, ProblemFacts, ProblemIds
  <2> QED
    BY <2>2 DEF Ids
<1>9. m \in ManifestRecord /\ m.limits = p.limits /\ m.cases = p.items
  BY <1>2 DEF ManifestRecord, ChangeRecord
<1>10. manifests \in [Ids -> ManifestRecord]
  BY DEF ProblemInv, ProblemShape
<1>11. manifests' \in [Ids -> ManifestRecord] /\ manifests'[p.id] = m
  BY <1>3, <1>8, <1>9, <1>10
<1>12. \A rev : rev # p.id => manifests'[rev] = manifests[rev]
  BY <1>3, <1>10
<1>13. Loads(p.id)'
  BY <1>3, <1>7, <1>9, <1>11 DEF Loads, RevisionKey
<1>14. LoadsStay
  <2>1. RevisionsStay
    BY <1>3 DEF RevisionsStay
  <2> QED
    BY <1>12, <1>13, <2>1, LoadsOn DEF LoadsStay
<1>15. OthersKeep(c)
  <2>1. \A d \in Calls : Holds(call[d]) /\ call[d].id = call[c].id => d = c
    BY <1>1, <1>7 DEF ProblemInv, IdsAreFresh
  <2> QED
    BY <1>1, <1>12, <2>1 DEF OthersKeep
<1>16. CallSound(r)'
  <2>1. IdSound(r)'
    BY <1>1, <1>3, <1>5, <1>7 DEF CallSound, IdSound
  <2>2. WorkSound(r)'
    BY <1>1, <1>2, <1>5, <1>7, <1>11 DEF CallSound, WorkSound
  <2> QED
    BY <2>1, <2>2 DEF CallSound
<1>17. UpToDate(r)'
  <2>1. ActiveCases' = ActiveCases
    BY <1>3 DEF ActiveCases
  <2>2. Wanted(r)' = Wanted(p)
    BY <1>5, <1>7, <2>1 DEF Wanted, Adding
  <2> QED
    BY <1>1, <1>3, <1>5, <2>2 DEF UpToDate
<1>18. r.pc = "committing" /\ r.items # {} => Loads(r.id)'
  BY <1>5, <1>13
<1> QED
  BY <1>1, <1>3, <1>5, <1>6, <1>7, <1>11, <1>14, <1>15, <1>16, <1>17, <1>18, ProblemFacts, CallMakesProgress

(* A call that ends, for whatever reason, or goes on to clean up. *)
LEMMA ReturnKeeps ==
    ASSUME ProblemInv, NEW c \in Calls, Return(c), RevisionsStay,
           UNCHANGED <<problem, testcases, manifests, lastId, handedOut>>
    PROVE  ProblemInv'
<1>1. PICK r \in ChangeRecord : r = Idle /\ CallSound(r) /\ ~Holds(r) /\ r.base.active = None /\ r.pc = "idle"
  BY ProblemFacts, IdleIsSound
<1>2. call' = [call EXCEPT ![c] = r]
  BY <1>1 DEF Return
<1>3. CallSound(r)'
  BY <1>1, ProblemFacts, SoundOn
<1>4. UpToDate(r)'
  BY <1>1 DEF UpToDate
<1> QED
  BY <1>1, <1>2, <1>3, <1>4, ProblemFacts, CallGoesOn

LEMMA UploadsGo == ASSUME NEW S, objects' = objects \ {UploadKey(u) : u \in S} PROVE RevisionsStay
  BY KeysDiffer DEF RevisionsStay

LEMMA FailKeeps == ASSUME ProblemInv, NEW c \in Calls, Fail(c) PROVE ProblemInv'
<1>1. PICK p \in ChangeRecord : p = call[c] /\ CallSound(p) /\ UpToDate(p)
  BY ProblemFacts
<1>2. UNCHANGED <<problem, testcases, manifests, lastId, handedOut>>
  BY DEF Fail
<1>3. RevisionsStay
  <2>1. objects' = objects \/ objects' = objects \ {UploadKey(call[c].id)}
    BY DEF Fail
  <2> QED
    BY <2>1, KeysDiffer DEF RevisionsStay
<1>4. CASE call[c].op = "create"
  <2>1. PICK r : r = [p EXCEPT !.pc = "cleaning"]
    OBVIOUS
  <2>2. r \in ChangeRecord /\ r.pc = "cleaning" /\ r.base = p.base
    BY <2>1 DEF ChangeRecord
  <2>3. call' = [call EXCEPT ![c] = r]
    BY <1>1, <1>4, <2>1, ProblemFacts DEF Fail
  <2>4. ~Holds(r) /\ ~Working(r)
    BY <2>2 DEF Holds, Working
  <2>5. CallSound(r)'
    BY <1>1, <1>2, <2>2, <2>4 DEF CallSound, IdSound, WorkSound
  <2>6. UpToDate(r)'
    BY <1>1, <1>2, <2>2 DEF UpToDate
  <2> QED
    BY <1>1, <1>2, <1>3, <2>2, <2>3, <2>4, <2>5, <2>6, ProblemFacts, CallGoesOn
<1>5. CASE call[c].op # "create"
  BY <1>2, <1>3, <1>5, ReturnKeeps DEF Fail
<1> QED
  BY <1>4, <1>5

LEMMA DieKeeps == ASSUME ProblemInv, NEW c \in Calls, Die(c) PROVE ProblemInv'
  BY ReturnKeeps, ObjectsGrow DEF Die

LEMMA DeleteStoredKeeps == ASSUME ProblemInv, NEW c \in Calls, DeleteStored(c) PROVE ProblemInv'
<1>1. PICK p \in ChangeRecord : p = call[c] /\ CallSound(p) /\ UpToDate(p)
  BY ProblemFacts
<1>2. p.pc = "cleaning" /\ UNCHANGED <<problem, testcases, manifests, lastId, handedOut>>
  BY <1>1 DEF DeleteStored, At
<1>3. RevisionsStay
  <2>1. objects' = objects \ {UploadKey(u) : u \in call[c].stored}
    BY DEF DeleteStored
  <2> QED
    BY <2>1, UploadsGo
<1>4. PICK r : r = [p EXCEPT !.stored = {}]
  OBVIOUS
<1>5. r \in ChangeRecord /\ r.pc = "cleaning" /\ r.base = p.base
  BY <1>2, <1>4 DEF ChangeRecord
<1>6. call' = [call EXCEPT ![c] = r]
  BY <1>1, <1>4, ProblemFacts DEF DeleteStored
<1>7. ~Holds(r) /\ ~Working(r)
  BY <1>5 DEF Holds, Working
<1>8. CallSound(r)'
  BY <1>1, <1>2, <1>5, <1>7 DEF CallSound, IdSound, WorkSound
<1>9. UpToDate(r)'
  BY <1>1, <1>2, <1>5 DEF UpToDate
<1> QED
  BY <1>1, <1>2, <1>3, <1>5, <1>6, <1>7, <1>8, <1>9, ProblemFacts, CallGoesOn

-----------------------------------------------------------------------------
(* The problem itself changes.  Afterwards no revision is active, or the    *)
(* same one over the same testcases and limits, or the one a call has just  *)
(* committed; the calls that move are those that hold no id any more.       *)
Rests(d) ==
    /\ CallSound(call[d])'
    /\ call'[d].pc \notin {"listing", "publishing", "committing"}
    /\ call'[d].base = call[d].base \/ call'[d].base.active = None
SameProblem == problem'.active = problem.active /\ problem'.limits = problem.limits /\ testcases' = testcases
Commits(c) == /\ call[c].pc = "committing" /\ call[c].items # {} /\ problem'.active = call[c].id
              /\ call'[c].pc \notin {"listing", "publishing", "committing"}

LEMMA ProblemMoves ==
    ASSUME ProblemInv, UNCHANGED <<objects, manifests, lastId, handedOut>>,
           problem' \in ProblemRecord, problem'.status # "absent" => problem'.limits # NoLimits,
           testcases' \in [CaseNos -> CaseRecord], call' \in [Calls -> ChangeRecord],
           \A d \in Calls : call'[d] = call[d] \/ Rests(d),
           problem'.active = None \/ SameProblem \/ (\E c \in Calls : Commits(c))
    PROVE  ProblemInv'
<1>1. \A d \in Calls : Holds(call'[d]) => call'[d] = call[d]
  BY DEF Rests, Holds
<1>2. \A d \in Calls : call'[d].base = call[d].base \/ call'[d].base.active = None
  BY DEF Rests
<1>3. \A d \in Calls : Holds(call[d]) => call[d].id # None
  <2>1. \A d \in Calls : Holds(call[d]) => call[d].id \in 1..lastId
    BY ProblemFacts DEF CallSound, IdSound
  <2> QED
    BY <2>1, ProblemFacts DEF None
<1>4. ASSUME NEW c \in Calls, Commits(c)
      PROVE  /\ Holds(call[c]) /\ problem'.active = call[c].id /\ ~Holds(call'[c]) /\ Loads(call[c].id)
             /\ \A d \in Calls : Holds(call[d]) /\ call[d].id = call[c].id => d = c
             /\ \A d \in Calls : call[d].base.active # problem'.active
  <2>1. Holds(call[c]) /\ problem'.active = call[c].id /\ ~Holds(call'[c])
    BY <1>4 DEF Commits, Holds
  <2>2. Loads(call[c].id)
    BY <1>4, LoadableCommit DEF Commits
  <2> QED
    BY <2>1, <2>2 DEF ProblemInv, IdsAreFresh
<1>5. ProblemShape'
  <2>1. problem'.active \in Nat /\ problem'.active <= lastId
    <3>1. CASE problem'.active = None
      BY <3>1, ProblemFacts DEF None
    <3>2. CASE SameProblem
      BY <3>2, ProblemFacts DEF SameProblem
    <3>3. ASSUME NEW c \in Calls, Commits(c) PROVE problem'.active \in Nat /\ problem'.active <= lastId
      <4>1. problem'.active \in 1..lastId
        BY <1>4, <3>3, ProblemFacts DEF CallSound, IdSound
      <4> QED
        BY <4>1, ProblemFacts
    <3> QED
      BY <3>1, <3>2, <3>3
  <2>2. lastId' = lastId /\ manifests' = manifests
    OBVIOUS
  <2> QED
    BY <2>1, <2>2 DEF ProblemInv, ProblemShape
<1>6. IdsAreFresh'
  <2>1. ASSUME NEW d \in Calls, Holds(call'[d])
        PROVE  /\ call'[d].id # problem'.active
               /\ \A e \in Calls : call'[d].id # call'[e].base.active
               /\ \A e \in Calls : Holds(call'[e]) /\ call'[e].id = call'[d].id => e = d
    <3>1. call'[d] = call[d] /\ Holds(call[d]) /\ call[d].id # None
      BY <1>1, <1>3, <2>1
    <3>2. /\ call[d].id # problem.active /\ \A e \in Calls : call[d].id # call[e].base.active
          /\ \A e \in Calls : Holds(call[e]) /\ call[e].id = call[d].id => e = d
      BY <3>1 DEF ProblemInv, IdsAreFresh
    <3>3. call[d].id # problem'.active
      <4>1. ASSUME NEW c \in Calls, Commits(c) PROVE call[d].id # problem'.active
        BY <1>4, <2>1, <3>1, <4>1
      <4> QED
        BY <3>1, <3>2, <4>1 DEF SameProblem
    <3> QED
      BY <1>1, <1>2, <3>1, <3>2, <3>3
  <2> QED
    BY <2>1 DEF IdsAreFresh, Holds, Adding
<1>7. ASSUME NEW d \in Calls PROVE CallSound(call[d])'
  <2>1. CASE call'[d] = call[d]
    <3>1. PICK q \in ChangeRecord : q = call[d] /\ CallSound(q)
      BY ProblemFacts
    <3>2. CallSound(q)'
      BY <3>1, ProblemFacts, SoundOn
    <3> QED
      BY <2>1, <3>1, <3>2 DEF CallSound, IdSound, WorkSound
  <2> QED
    BY <2>1 DEF Rests
<1>8. ASSUME NEW d \in Calls PROVE UpToDate(call[d])'
  <2>1. ASSUME problem'.active # None, call'[d].base.active = problem'.active
        PROVE  SameProblem /\ call'[d].base = call[d].base /\ call[d].base.active = problem.active
    <3>1. call'[d].base = call[d].base
      BY <1>2, <2>1
    <3>2. \A c \in Calls : ~Commits(c)
      BY <1>4, <2>1, <3>1
    <3> QED
      BY <2>1, <3>1, <3>2 DEF SameProblem
  <2>2. ASSUME problem'.active # None, call'[d].base.active = problem'.active,
               call'[d].pc \in {"publishing", "committing"}, call'[d].items # {}
        PROVE  call'[d].items = Wanted(call[d])'
    <3>1. SameProblem /\ call'[d] = call[d] /\ call[d].base.active = problem.active
      BY <2>1, <2>2 DEF Rests
    <3>2. call[d].items = Wanted(call[d])
      BY <2>2, <3>1, ProblemFacts DEF UpToDate, SameProblem
    <3>3. ActiveCases' = ActiveCases
      BY <3>1 DEF ActiveCases, SameProblem
    <3>4. Wanted(call[d])' = Wanted(call[d])
      BY <3>1, <3>3 DEF Wanted, Adding
    <3> QED
      BY <3>1, <3>2, <3>4
  <2>3. problem'.active # None /\ call'[d].base.active = problem'.active => call'[d].base.limits = problem'.limits
    BY <2>1, ProblemFacts DEF UpToDate, SameProblem
  <2> QED
    BY <2>2, <2>3 DEF UpToDate
<1>9. RevisionsLoad'
  <2>1. \A rev : Loads(rev) => Loads(rev)'
    BY ObjectsGrow, LoadsOn
  <2>2. ASSUME problem'.active # None PROVE Loads(problem'.active)
    <3>1. SameProblem => Loads(problem'.active)
      BY <2>2 DEF ProblemInv, RevisionsLoad, HandedOutIsLoadable, SameProblem
    <3>2. ASSUME NEW c \in Calls, Commits(c) PROVE Loads(problem'.active)
      BY <1>4, <3>2
    <3> QED
      BY <2>2, <3>1, <3>2
  <2>3. \A rev \in handedOut' \cup ({problem'.active} \ {None}) : Loads(rev)
    BY <2>2 DEF ProblemInv, RevisionsLoad, HandedOutIsLoadable
  <2>4. HandedOutIsLoadable'
    BY <2>1, <2>3 DEF HandedOutIsLoadable
  <2>5. ASSUME NEW d \in Calls, call'[d].pc = "committing", call'[d].items # {} PROVE Loads(call[d].id)'
    <3>1. call'[d] = call[d]
      BY <2>5 DEF Rests
    <3>2. Loads(call[d].id)
      BY <2>5, <3>1, LoadableCommit
    <3>3. call'[d].id = call[d].id
      BY <3>1
    <3> QED
      BY <3>2, <3>3 DEF Loads, RevisionKey
  <2> QED
    BY <2>4, <2>5 DEF ProblemInv, RevisionsLoad
<1> QED
  BY <1>5, <1>6, <1>7, <1>8, <1>9 DEF ProblemInv

LEMMA EndedCallRests ==
    ASSUME ProblemInv, NEW c \in Calls, Return(c), UNCHANGED <<manifests, lastId>>
    PROVE  /\ call' \in [Calls -> ChangeRecord] /\ \A d \in Calls : call'[d] = call[d] \/ Rests(d)
           /\ call'[c].pc \notin {"listing", "publishing", "committing"}
<1>1. PICK r \in ChangeRecord : r = Idle /\ CallSound(r) /\ r.base.active = None /\ r.pc = "idle"
  BY ProblemFacts, IdleIsSound
<1>2. call' = [call EXCEPT ![c] = r]
  BY <1>1 DEF Return
<1>3. CallSound(r)'
  BY <1>1, ProblemFacts, SoundOn
<1>4. call' \in [Calls -> ChangeRecord] /\ call'[c] = r /\ \A d \in Calls \ {c} : call'[d] = call[d]
  BY <1>2, ProblemFacts
<1>5. CallSound(call[c])'
  BY <1>3, <1>4 DEF CallSound, IdSound, WorkSound
<1> QED
  BY <1>1, <1>4, <1>5 DEF Rests

LEMMA CommitUpdateKeeps == ASSUME ProblemInv, NEW c \in Calls, CommitUpdate(c) PROVE ProblemInv'
<1>1. PICK p \in ChangeRecord : p = call[c] /\ CallSound(p) /\ UpToDate(p)
  BY ProblemFacts
<1>2. /\ p.pc = "committing" /\ p.op = "update" /\ problem.active = p.base.active
      /\ Return(c) /\ UNCHANGED <<testcases, objects, manifests, lastId, handedOut>>
  BY <1>1 DEF CommitUpdate, At, Unchanged
<1>3. PICK a : a = IF p.items = {} THEN problem.active ELSE p.id
  OBVIOUS
<1>4. problem' = [problem EXCEPT !.limits = p.limits, !.active = a]
  BY <1>1, <1>3 DEF CommitUpdate
<1>5. a \in NoneOr(Ids)
  BY <1>3, ProblemFacts DEF ChangeRecord, ProblemRecord
<1>6. p.limits # NoLimits /\ p.limits \in Limits \cup {NoLimits}
  BY <1>1, <1>2 DEF CallSound, WorkSound, Working, ChangeRecord
<1>7. problem' \in ProblemRecord /\ problem'.limits = p.limits /\ problem'.active = a
  BY <1>4, <1>5, <1>6, ProblemFacts DEF ProblemRecord
<1>8. /\ call' \in [Calls -> ChangeRecord] /\ \A d \in Calls : call'[d] = call[d] \/ Rests(d)
      /\ call'[c].pc \notin {"listing", "publishing", "committing"}
  BY <1>2, EndedCallRests
<1>9. problem'.active = None \/ SameProblem \/ Commits(c)
  <2>1. CASE p.items # {}
    BY <1>1, <1>2, <1>3, <1>7, <1>8, <2>1 DEF Commits
  <2>2. CASE p.items = {} /\ problem.active # None
    <3>1. p.limits = p.base.limits
      BY <1>1, <1>2, <2>2 DEF CallSound, WorkSound
    <3>2. p.base.limits = problem.limits
      BY <1>1, <1>2, <2>2 DEF UpToDate
    <3> QED
      BY <1>2, <1>3, <1>7, <2>2, <3>1, <3>2 DEF SameProblem
  <2>3. CASE p.items = {} /\ problem.active = None
    BY <1>3, <1>7, <2>3
  <2> QED
    BY <2>1, <2>2, <2>3
<1>10. testcases' \in [CaseNos -> CaseRecord]
  BY <1>2 DEF ProblemInv, ProblemShape
<1> QED
  BY <1>2, <1>6, <1>7, <1>8, <1>9, <1>10, ProblemMoves

(* The revision of a change of the testcases: none, or the call's own. *)
LEMMA NewRevision ==
    ASSUME ProblemInv, NEW c \in Calls, problem' = [problem EXCEPT !.active = Revision(c)]
    PROVE  /\ problem' \in ProblemRecord /\ (problem'.status # "absent" => problem'.limits # NoLimits)
           /\ problem'.limits = problem.limits
           /\ call[c].items = {} => problem'.active = None
           /\ call[c].items # {} => problem'.active = call[c].id
<1>1. PICK a \in NoneOr(Ids) : a = Revision(c)
  BY ProblemFacts DEF Revision, ChangeRecord, NoneOr
<1>2. problem' \in ProblemRecord /\ problem'.limits = problem.limits /\ problem'.status = problem.status /\ problem'.active = a
  BY <1>1, ProblemFacts DEF ProblemRecord
<1> QED
  BY <1>1, <1>2, ProblemFacts DEF Revision

LEMMA CommitAddedKeeps ==
    ASSUME ProblemInv, NEW c \in Calls, CommitAddedTestcase(c) \/ LoseCommitAnswer(c) PROVE ProblemInv'
<1>1. PICK p \in ChangeRecord : p = call[c] /\ CallSound(p) /\ UpToDate(p)
  BY ProblemFacts
<1>2. /\ p.pc = "committing" /\ Adding(p) /\ UNCHANGED <<objects, manifests, lastId, handedOut>>
      /\ problem' = [problem EXCEPT !.active = Revision(c)]
  BY <1>1 DEF CommitAddedTestcase, LoseCommitAnswer, AddRow, At, Adds, Adding
<1>3. p.items # {} /\ p.case \in CaseNos /\ p.id \in NoneOr(Ids)
  BY <1>1, <1>2 DEF CallSound, WorkSound, Working, Adding, ChangeRecord
<1>4. PICK t \in CaseRecord : t = [status |-> "active", upload |-> p.id]
  BY <1>3 DEF CaseRecord
<1>5. testcases' = [testcases EXCEPT ![p.case] = t]
  BY <1>1, <1>4 DEF CommitAddedTestcase, LoseCommitAnswer, AddRow
<1>6. testcases' \in [CaseNos -> CaseRecord]
  BY <1>3, <1>5 DEF ProblemInv, ProblemShape
<1>7. /\ problem' \in ProblemRecord /\ (problem'.status # "absent" => problem'.limits # NoLimits)
      /\ problem'.active = p.id
  BY <1>1, <1>2, <1>3, NewRevision
<1>8. /\ call' \in [Calls -> ChangeRecord] /\ \A d \in Calls : call'[d] = call[d] \/ Rests(d)
      /\ call'[c].pc \notin {"listing", "publishing", "committing"}
  <2>1. CASE CommitAddedTestcase(c) /\ p.op = "create" /\ p.todo # {}
    <3>1. PICK stored \in SUBSET NoneOr(Ids) : stored = p.stored \cup {p.id}
      BY <1>3 DEF ChangeRecord
    <3>2. PICK r : r = [p EXCEPT !.pc = "next case", !.stored = stored, !.items = {}]
      OBVIOUS
    <3>3. r \in ChangeRecord /\ r.pc = "next case" /\ r.op = p.op /\ r.base = p.base
      BY <3>2 DEF ChangeRecord
    <3>4. call' = [call EXCEPT ![c] = r]
      BY <1>1, <2>1, <3>1, <3>2, ProblemFacts DEF CommitAddedTestcase
    <3>5. ~Holds(r) /\ ~Working(r)
      BY <3>3 DEF Holds, Working
    <3>6. CallSound(r)'
      BY <1>1, <1>2, <2>1, <3>3, <3>5 DEF CallSound, IdSound, WorkSound
    <3>7. call' \in [Calls -> ChangeRecord] /\ call'[c] = r /\ \A d \in Calls \ {c} : call'[d] = call[d]
      BY <3>3, <3>4, ProblemFacts
    <3>8. CallSound(call[c])'
      BY <3>6, <3>7 DEF CallSound, IdSound, WorkSound
    <3> QED
      BY <1>1, <3>3, <3>7, <3>8 DEF Rests
  <2>2. CASE CommitAddedTestcase(c) /\ ~(p.op = "create" /\ p.todo # {})
    <3>1. Return(c)
      BY <1>1, <2>2 DEF CommitAddedTestcase
    <3> QED
      BY <1>2, <3>1, EndedCallRests
  <2>3. CASE LoseCommitAnswer(c)
    <3>1. PICK r : r = [p EXCEPT !.pc = "unanswered"]
      OBVIOUS
    <3>2. r \in ChangeRecord /\ r.pc = "unanswered" /\ r.op = p.op /\ r.base = p.base
      BY <3>1 DEF ChangeRecord
    <3>3. call' = [call EXCEPT ![c] = r]
      BY <1>1, <2>3, <3>1, ProblemFacts DEF LoseCommitAnswer
    <3>4. ~Holds(r) /\ ~Working(r)
      BY <3>2 DEF Holds, Working
    <3>5. CallSound(r)'
      BY <1>1, <1>2, <3>2, <3>4 DEF CallSound, IdSound, WorkSound
    <3>6. call' \in [Calls -> ChangeRecord] /\ call'[c] = r /\ \A d \in Calls \ {c} : call'[d] = call[d]
      BY <3>2, <3>3, ProblemFacts
    <3>7. CallSound(call[c])'
      BY <3>5, <3>6 DEF CallSound, IdSound, WorkSound
    <3> QED
      BY <1>1, <3>2, <3>6, <3>7 DEF Rests
  <2> QED
    BY <2>1, <2>2, <2>3
<1>9. Commits(c)
  BY <1>1, <1>2, <1>3, <1>7, <1>8 DEF Commits
<1> QED
  BY <1>2, <1>6, <1>7, <1>8, <1>9, ProblemMoves

LEMMA CommitArchivedKeeps == ASSUME ProblemInv, NEW c \in Calls, CommitArchivedTestcase(c) PROVE ProblemInv'
<1>1. PICK p \in ChangeRecord : p = call[c] /\ CallSound(p) /\ UpToDate(p)
  BY ProblemFacts
<1>2. /\ p.pc = "committing" /\ p.op = "archive case" /\ Return(c)
      /\ UNCHANGED <<objects, manifests, lastId, handedOut>>
      /\ problem' = [problem EXCEPT !.active = Revision(c)]
      /\ testcases' = [testcases EXCEPT ![p.case].status = "archived"]
  BY <1>1 DEF CommitArchivedTestcase, At
<1>3. p.case \in CaseNos
  BY <1>1, <1>2 DEF CallSound, WorkSound, Working
<1>4. testcases' \in [CaseNos -> CaseRecord]
  BY <1>2, <1>3 DEF ProblemInv, ProblemShape, CaseRecord
<1>5. /\ problem' \in ProblemRecord /\ (problem'.status # "absent" => problem'.limits # NoLimits)
      /\ p.items = {} => problem'.active = None
      /\ p.items # {} => problem'.active = p.id
  BY <1>1, <1>2, NewRevision
<1>6. /\ call' \in [Calls -> ChangeRecord] /\ \A d \in Calls : call'[d] = call[d] \/ Rests(d)
      /\ call'[c].pc \notin {"listing", "publishing", "committing"}
  BY <1>2, EndedCallRests
<1>7. problem'.active = None \/ Commits(c)
  BY <1>1, <1>2, <1>5, <1>6 DEF Commits
<1> QED
  BY <1>2, <1>4, <1>5, <1>6, <1>7, ProblemMoves

LEMMA CreateKeeps ==
    ASSUME ProblemInv, NEW c \in Calls, NEW limits \in Limits, NEW cases \in SUBSET CaseNos, Create(c, limits, cases)
    PROVE  ProblemInv'
<1>1. PICK b : b = [status |-> "normal", limits |-> limits, active |-> None]
  OBVIOUS
<1>2. b \in ProblemRecord /\ b.status = "normal" /\ b.limits = limits /\ b.active = None /\ limits # NoLimits
  BY <1>1, ProblemIds DEF ProblemRecord, NoneOr
<1>3. problem' = b /\ UNCHANGED <<testcases, objects, manifests, lastId, handedOut>>
  BY <1>1 DEF Create
<1>4. call' \in [Calls -> ChangeRecord] /\ \A d \in Calls : call'[d] = call[d] \/ Rests(d)
  <2>1. CASE cases = {}
    BY <2>1, ProblemFacts DEF Create
  <2>2. CASE cases # {}
    <3>1. PICK r : r = [Idle EXCEPT !.pc = "next case", !.op = "create", !.todo = cases, !.base = b, !.limits = limits]
      OBVIOUS
    <3>2. Idle \in ChangeRecord
      BY ProblemFacts, IdleIsSound
    <3>3. r \in ChangeRecord /\ r.pc = "next case" /\ r.op = "create" /\ r.base = b
      BY <1>2, <3>1, <3>2 DEF ChangeRecord, Idle
    <3>4. call' = [call EXCEPT ![c] = r]
      BY <1>3, <2>2, <3>1 DEF Create
    <3>5. ~Holds(r) /\ ~Working(r)
      BY <3>3 DEF Holds, Working
    <3>6. lastId' \in Nat /\ None <= lastId'
      BY <1>3, ProblemFacts DEF None
    <3>7. CallSound(r)'
      BY <1>2, <3>3, <3>5, <3>6 DEF CallSound, IdSound, WorkSound
    <3>8. call' \in [Calls -> ChangeRecord] /\ call'[c] = r /\ \A d \in Calls \ {c} : call'[d] = call[d]
      BY <3>3, <3>4, ProblemFacts
    <3>9. CallSound(call[c])'
      BY <3>7, <3>8 DEF CallSound, IdSound, WorkSound
    <3> QED
      BY <1>2, <3>3, <3>8, <3>9 DEF Rests
  <2> QED
    BY <2>1, <2>2
<1>5. testcases' \in [CaseNos -> CaseRecord]
  BY <1>3 DEF ProblemInv, ProblemShape
<1> QED
  BY <1>2, <1>3, <1>4, <1>5, ProblemMoves

LEMMA DeleteCreatedKeeps == ASSUME ProblemInv, NEW c \in Calls, DeleteCreatedProblem(c) PROVE ProblemInv'
<1>1. /\ problem' = NoProblem /\ testcases' = [n \in CaseNos |-> NoCase] /\ Return(c)
      /\ UNCHANGED <<objects, manifests, lastId, handedOut>>
  BY DEF DeleteCreatedProblem
<1>2. NoProblem \in ProblemRecord /\ NoProblem.active = None /\ NoProblem.status = "absent" /\ NoCase \in CaseRecord
  BY DEF NoProblem, ProblemRecord, NoCase, CaseRecord, NoneOr
<1> QED
  BY <1>1, <1>2, EndedCallRests, ProblemMoves

LEMMA ArchiveKeeps == ASSUME ProblemInv, Archive PROVE ProblemInv'
<1>1. /\ problem.status = "normal" /\ problem' = [problem EXCEPT !.status = "archived"]
      /\ UNCHANGED <<testcases, objects, manifests, lastId, call, handedOut>>
  BY DEF Archive
<1>2. problem' \in ProblemRecord /\ problem'.limits = problem.limits /\ problem'.active = problem.active
  BY <1>1, ProblemFacts DEF ProblemRecord
<1>3. SameProblem /\ problem'.limits # NoLimits
  BY <1>1, <1>2, ProblemFacts DEF SameProblem
<1>4. testcases' \in [CaseNos -> CaseRecord]
  BY <1>1 DEF ProblemInv, ProblemShape
<1> QED
  BY <1>1, <1>2, <1>3, <1>4, ProblemFacts, ProblemMoves

(* What does not depend on the history variable stays. *)
LEMMA ProfileKeeps ==
    ASSUME ProblemInv, UNCHANGED <<problem, testcases, objects, manifests, lastId, call>>,
           handedOut' \subseteq handedOut \cup ({problem.active} \ {None})
    PROVE  ProblemInv'
<1>1. ProblemShape' /\ IdsAreFresh'
  BY DEF ProblemInv, ProblemShape, IdsAreFresh
<1>2. \A c \in Calls : CallSound(call[c])' /\ UpToDate(call[c])'
  <2>1. \A c \in Calls : CallSound(call[c])'
    BY DEF ProblemInv, CallSound, IdSound, WorkSound
  <2>2. ActiveCases' = ActiveCases
    BY DEF ActiveCases
  <2>3. \A c \in Calls : UpToDate(call[c])'
    BY <2>2 DEF ProblemInv, UpToDate, Wanted
  <2> QED
    BY <2>1, <2>3
<1>3. \A rev : Loads(rev) => Loads(rev)'
  BY ObjectsGrow, LoadsOn
<1>4. problem.active # None => problem.active \in Ids
  BY ProblemFacts DEF ProblemRecord, NoneOr
<1>5. HandedOutIsLoadable' /\ handedOut' \subseteq Ids
  BY <1>3, <1>4 DEF ProblemInv, RevisionsLoad, HandedOutIsLoadable
<1>6. \A c \in Calls : (call[c].pc = "committing" /\ call[c].items # {} => Loads(call[c].id))'
  BY LoadableCommit DEF Loads, RevisionKey
<1> QED
  BY <1>1, <1>2, <1>5, <1>6 DEF ProblemInv, RevisionsLoad

LEMMA ProblemStep == ASSUME ProblemInv, [ProblemNext]_problemVars PROVE ProblemInv'
<1>1. ASSUME NEW c \in Calls, Handle(c) PROVE ProblemInv'
  BY <1>1, BeginningsKeep, CreateKeeps, NextCaseKeeps, UploadKeeps, ListKeeps, CopyKeeps, PutManifestKeeps,
     CommitUpdateKeeps, CommitAddedKeeps, CommitArchivedKeeps, FailKeeps, DeleteStoredKeeps,
     DeleteCreatedKeeps, DieKeeps DEF Handle
<1>2. ASSUME NEW i \in Instances, GetJudgeProfile(i) PROVE ProblemInv'
  BY <1>2, ProfileKeeps DEF GetJudgeProfile
<1>3. ASSUME UNCHANGED problemVars PROVE ProblemInv'
  BY <1>3, ProfileKeeps DEF problemVars
<1> QED
  BY <1>1, <1>2, <1>3, ArchiveKeeps DEF ProblemNext

(* Whatever the numbers of instances, calls, testcases and ids: a revision  *)
(* that GetJudgeProfile has handed to the judge service, or that is active, *)
(* can be loaded by a worker in every later state, although uploads are     *)
(* deleted, testcases archived and calls die in between.                    *)
THEOREM HandedOutRevisionsLoad == ProblemSpec => []HandedOutIsLoadable
<1>1. ProblemInv => HandedOutIsLoadable
  BY DEF ProblemInv, RevisionsLoad
<1>2. ProblemInv /\ [ProblemNext]_problemVars => ProblemInv'
  BY ProblemStep
<1> QED
  BY <1>1, <1>2, ProblemStart, PTL DEF ProblemSpec

-----------------------------------------------------------------------------
(* The three transactions that switch the active revision. *)
BuildsOn ==
    problem.active # None /\ problem'.active \notin {None, problem.active}
      => manifests'[problem'.active] = [limits |-> problem'.limits, cases |-> ActiveCases']

LEMMA CommittedItems ==
    ASSUME ProblemInv, NEW c \in Calls, NEW p, p = call[c], p.pc = "committing", p.items # {},
           problem.active # None, problem.active = p.base.active
    PROVE  /\ manifests[p.id] = [limits |-> p.limits, cases |-> p.items]
           /\ p.items = Wanted(p) /\ p.base.limits = problem.limits
           /\ p.op # "update" => p.limits = problem.limits /\ p.case \in CaseNos
<1>1. CallSound(p) /\ UpToDate(p) /\ Working(p)
  BY ProblemFacts DEF Working
<1>2. p.items = Wanted(p) /\ p.base.limits = problem.limits
  BY <1>1 DEF UpToDate
<1> QED
  BY <1>1, <1>2 DEF CallSound, WorkSound

LEMMA UpdateBuildsOn == ASSUME ProblemInv, NEW c \in Calls, CommitUpdate(c) PROVE BuildsOn
<1> SUFFICES ASSUME problem.active # None, problem'.active \notin {None, problem.active}
             PROVE  manifests'[problem'.active] = [limits |-> problem'.limits, cases |-> ActiveCases']
  BY DEF BuildsOn
<1>1. PICK p \in ChangeRecord : p = call[c]
  BY ProblemFacts
<1>2. /\ p.pc = "committing" /\ p.op = "update" /\ problem.active = p.base.active
      /\ problem' = [problem EXCEPT !.limits = p.limits, !.active = IF p.items = {} THEN @ ELSE p.id]
      /\ UNCHANGED <<testcases, manifests>>
  BY <1>1 DEF CommitUpdate, At, Unchanged
<1>3. p.items # {} /\ problem'.active = p.id /\ problem'.limits = p.limits
  BY <1>2, ProblemFacts DEF ProblemRecord
<1>4. manifests[p.id] = [limits |-> p.limits, cases |-> p.items] /\ p.items = Wanted(p)
  BY <1>1, <1>2, <1>3, CommittedItems
<1>5. p.items = ActiveCases /\ ActiveCases' = ActiveCases
  BY <1>2, <1>4 DEF Wanted, Adding, ActiveCases
<1> QED
  BY <1>2, <1>3, <1>4, <1>5

LEMMA AddedBuildsOn ==
    ASSUME ProblemInv, NEW c \in Calls, CommitAddedTestcase(c) \/ LoseCommitAnswer(c) PROVE BuildsOn
<1> SUFFICES ASSUME problem.active # None, problem'.active \notin {None, problem.active}
             PROVE  manifests'[problem'.active] = [limits |-> problem'.limits, cases |-> ActiveCases']
  BY DEF BuildsOn
<1>1. PICK p \in ChangeRecord : p = call[c]
  BY ProblemFacts
<1>2. /\ p.pc = "committing" /\ Adding(p) /\ problem.active = p.base.active
      /\ testcases[p.case].status = "none"
      /\ testcases' = [testcases EXCEPT ![p.case] = [status |-> "active", upload |-> p.id]]
      /\ problem' = [problem EXCEPT !.active = Revision(c)] /\ UNCHANGED manifests
  BY <1>1 DEF CommitAddedTestcase, LoseCommitAnswer, AddRow, At, Unchanged, Adds, Adding
<1>3. problem'.limits = problem.limits /\ p.items # {} /\ problem'.active = p.id
  BY <1>1, <1>2, NewRevision
<1>4. /\ manifests[p.id] = [limits |-> problem.limits, cases |-> p.items] /\ p.items = Wanted(p)
      /\ p.case \in CaseNos
  BY <1>1, <1>2, <1>3, CommittedItems DEF Adding
<1>5. p.items = ActiveCases \cup {[no |-> p.case, upload |-> p.id]}
  BY <1>2, <1>4 DEF Wanted, Adding
<1>6. testcases \in [CaseNos -> CaseRecord]
  BY DEF ProblemInv, ProblemShape
<1>7. /\ testcases'[p.case].status = "active" /\ testcases'[p.case].upload = p.id
      /\ \A n \in CaseNos : n # p.case => testcases'[n] = testcases[n]
  BY <1>2, <1>4, <1>6
<1>8. ActiveCases' = ActiveCases \cup {[no |-> p.case, upload |-> p.id]}
  BY <1>2, <1>4, <1>7 DEF ActiveCases
<1> QED
  BY <1>2, <1>3, <1>4, <1>5, <1>8

LEMMA ArchivedBuildsOn == ASSUME ProblemInv, NEW c \in Calls, CommitArchivedTestcase(c) PROVE BuildsOn
<1> SUFFICES ASSUME problem.active # None, problem'.active \notin {None, problem.active}
             PROVE  manifests'[problem'.active] = [limits |-> problem'.limits, cases |-> ActiveCases']
  BY DEF BuildsOn
<1>1. PICK p \in ChangeRecord : p = call[c]
  BY ProblemFacts
<1>2. /\ p.pc = "committing" /\ p.op = "archive case" /\ problem.active = p.base.active
      /\ testcases' = [testcases EXCEPT ![p.case].status = "archived"]
      /\ problem' = [problem EXCEPT !.active = Revision(c)] /\ UNCHANGED manifests
  BY <1>1 DEF CommitArchivedTestcase, At, Unchanged
<1>3. problem'.limits = problem.limits /\ p.items # {} /\ problem'.active = p.id
  BY <1>1, <1>2, NewRevision
<1>4. /\ manifests[p.id] = [limits |-> problem.limits, cases |-> p.items] /\ p.items = Wanted(p)
      /\ p.case \in CaseNos
  BY <1>1, <1>2, <1>3, CommittedItems
<1>5. p.items = {t \in ActiveCases : t.no # p.case}
  BY <1>2, <1>4 DEF Wanted, Adding
<1>6. testcases \in [CaseNos -> CaseRecord]
  BY DEF ProblemInv, ProblemShape
<1>7. /\ testcases'[p.case].status # "active"
      /\ \A n \in CaseNos : n # p.case => testcases'[n] = testcases[n]
  BY <1>2, <1>4, <1>6 DEF CaseRecord
<1>8. ActiveCases' = {t \in ActiveCases : t.no # p.case}
  BY <1>4, <1>7 DEF ActiveCases
<1> QED
  BY <1>2, <1>3, <1>4, <1>5, <1>8

(* Every other step leaves the active revision alone or clears it. *)
LEMMA OthersBuildNothing ==
    ASSUME ProblemInv, [ProblemNext]_problemVars,
           \A c \in Calls : ~CommitUpdate(c) /\ ~CommitAddedTestcase(c) /\ ~LoseCommitAnswer(c) /\ ~CommitArchivedTestcase(c)
    PROVE  BuildsOn
<1> SUFFICES problem'.active \in {None, problem.active}
  BY DEF BuildsOn
<1>1. ASSUME NEW c \in Calls, Handle(c) PROVE problem'.active \in {None, problem.active}
  <2>1. ASSUME NEW l \in Limits, NEW cases \in SUBSET CaseNos, Create(c, l, cases) PROVE problem'.active = None
    BY <2>1 DEF Create
  <2>2. ASSUME DeleteCreatedProblem(c) PROVE problem'.active = None
    BY <2>2 DEF DeleteCreatedProblem, NoProblem
  <2>3. ASSUME NextCase(c) \/ Upload(c) \/ ListTestcases(c) \/ CopyTestcase(c) \/ PutManifest(c)
                 \/ Fail(c) \/ DeleteStored(c) \/ Die(c)
        PROVE  problem' = problem
    BY <2>3 DEF NextCase, Upload, ListTestcases, CopyTestcase, PutManifest, Fail, DeleteStored, Die
  <2>4. ASSUME NEW i \in Instances, NEW n \in CaseNos, AddTestcase(c, i, n) \/ ArchiveTestcase(c, i, n)
        PROVE  problem' = problem
    BY <2>4 DEF AddTestcase, ArchiveTestcase, Begin
  <2>5. ASSUME NEW i \in Instances, NEW l \in Limits, Update(c, i, l) PROVE problem' = problem
    BY <2>5 DEF Update, Begin
  <2> QED
    BY <1>1, <2>1, <2>2, <2>3, <2>4, <2>5 DEF Handle
<1>2. ASSUME NEW i \in Instances, GetJudgeProfile(i) PROVE problem' = problem
  BY <1>2 DEF GetJudgeProfile
<1>3. Archive => problem'.active = problem.active
  BY ProblemFacts DEF Archive, ProblemRecord
<1> QED
  BY <1>1, <1>2, <1>3 DEF ProblemNext, problemVars

(* Whatever the instances and calls do: a change on top of a published      *)
(* revision switches to a revision that holds exactly the testcases that    *)
(* are active and the limits the problem has from then on, so no change     *)
(* committed before it is lost.                                             *)
THEOREM RevisionsBuildOnEachOther == ProblemSpec => ChangesBuildOnRevision
<1>1. ProblemInv /\ [ProblemNext]_problemVars => BuildsOn
  BY UpdateBuildsOn, AddedBuildsOn, ArchivedBuildsOn, OthersBuildNothing
<1>2. ProblemInv /\ [ProblemNext]_problemVars => ProblemInv'
  BY ProblemStep
<1>3. BuildsOn => [BuildsOn]_problemVars
  OBVIOUS
<1> QED
  BY <1>1, <1>2, <1>3, ProblemStart, PTL DEF ProblemSpec, ChangesBuildOnRevision, BuildsOn

-----------------------------------------------------------------------------
(***************************************************************************)
(* The cache of problem pages (ProblemPages).                              *)
(*                                                                         *)
(* A page goes because whoever may still write it, a reader that found it  *)
(* before a change or the key itself, is itself young: ages only grow      *)
(* together (KeyIsYoung, CallIsYoung).                                     *)
(***************************************************************************)

CallSteps == {"idle", "finding", "tags", "found", "created", "adding", "undoing", "changed"}
PageCallUnderWay ==
    [pc : CallSteps, row : ProblemVersions, tags : ProblemVersions, spent : 0..PageCallTimeout]
PageCallRecord == PageCallUnderWay \cup [pc : {"shown"}, age : -1..Timeless]

(* A version is out of date only once a later one is there. *)
PagesShape ==
    /\ current.version \in ProblemVersions
    /\ outdated \in [ProblemVersions -> -1..Timeless]
    /\ \A v \in ProblemVersions : v >= current.version => outdated[v] = -1
    /\ page \in [row : ProblemVersions, tags : ProblemVersions, left : 0..PageTTL]
    /\ pageCall \in [PageCalls -> PageCallRecord]

(* What is in the key went out of date at most a call's time before it was  *)
(* put there; what a call has read, at most since the call began; and what  *)
(* is shown is as old as either.                                            *)
KeyIsYoung ==
    Cached => /\ outdated[page.row] <= PageCallTimeout + PageTTL - page.left
              /\ outdated[page.tags] <= PageCallTimeout + PageTTL - page.left

CallIsYoung(r) ==
    /\ r.pc = "idle" => r = NoPageCall
    /\ r.pc \in {"tags", "found", "created"} => outdated[r.row] <= r.spent
    /\ r.pc \in {"found", "created"} => outdated[r.tags] <= r.spent
    /\ r.pc = "shown" => r.age <= PageTTL + PageCallTimeout

PageInv == PagesShape /\ KeyIsYoung /\ \A c \in PageCalls : CallIsYoung(pageCall[c])

-----------------------------------------------------------------------------
LEMMA PagesStart == PagesInit => PageInv
<1> SUFFICES ASSUME PagesInit PROVE PageInv
  OBVIOUS
<1>1. NoPageCall \in PageCallRecord
  BY PagesAssumption DEF NoPageCall, PageCallRecord, PageCallUnderWay, CallSteps, ProblemVersions
<1>2. PagesShape
  BY <1>1, PagesAssumption DEF PagesInit, PagesShape, ProblemVersions, NoCachedPage, Timeless
<1>3. KeyIsYoung
  BY DEF PagesInit, KeyIsYoung, Cached, NoCachedPage
<1>4. ASSUME NEW c \in PageCalls PROVE CallIsYoung(pageCall[c])
  BY DEF PagesInit, CallIsYoung, NoPageCall
<1> QED
  BY <1>2, <1>3, <1>4 DEF PageInv

(* A commit makes what was current out of date, from now on. *)
LEMMA CommitKeeps ==
    ASSUME PageInv, NEW status, Commit(status)
    PROVE  /\ current'.version = current.version + 1 /\ current'.version \in ProblemVersions
           /\ outdated' \in [ProblemVersions -> -1..Timeless]
           /\ \A v \in ProblemVersions : v >= current'.version => outdated'[v] = -1
           /\ \A v \in ProblemVersions, a \in Nat : outdated[v] <= a => outdated'[v] <= a
<1>1. /\ current.version \in ProblemVersions /\ outdated \in [ProblemVersions -> -1..Timeless]
      /\ \A v \in ProblemVersions : v >= current.version => outdated[v] = -1
  BY DEF PageInv, PagesShape
<1>2. /\ current'.version = current.version + 1 /\ outdated' = [outdated EXCEPT ![current.version] = 0]
      /\ current.version < MaxProblemVersion
  BY DEF Commit
<1>3. 0 \in -1..Timeless
  BY PagesAssumption DEF Timeless
<1>4. current'.version \in ProblemVersions
  BY <1>1, <1>2, PagesAssumption DEF ProblemVersions
<1>5. outdated' \in [ProblemVersions -> -1..Timeless]
  BY <1>1, <1>2, <1>3
<1>6. ASSUME NEW v \in ProblemVersions, v >= current'.version PROVE outdated'[v] = -1
  BY <1>1, <1>2, <1>6, PagesAssumption DEF ProblemVersions
<1>7. ASSUME NEW v \in ProblemVersions, NEW a \in Nat, outdated[v] <= a PROVE outdated'[v] <= a
  BY <1>1, <1>2, <1>7
<1> QED
  BY <1>2, <1>4, <1>5, <1>6, <1>7

(* The key after a commit, when nobody writes it. *)
LEMMA KeyKept ==
    ASSUME PageInv, page' = page,
           \A v \in ProblemVersions, a \in Nat : outdated[v] <= a => outdated'[v] <= a
    PROVE  KeyIsYoung'
<1>1. page.row \in ProblemVersions /\ page.tags \in ProblemVersions /\ page.left \in 0..PageTTL
  BY DEF PageInv, PagesShape
<1>2. PageCallTimeout + PageTTL - page.left \in Nat
  BY <1>1, PagesAssumption
<1> QED
  BY <1>1, <1>2 DEF PageInv, KeyIsYoung, Cached

LEMMA CallKept ==
    ASSUME PageInv, NEW r \in PageCallRecord, CallIsYoung(r),
           \A v \in ProblemVersions, a \in Nat : outdated[v] <= a => outdated'[v] <= a
    PROVE  CallIsYoung(r)'
<1>1. CASE r.pc = "shown"
  BY <1>1 DEF CallIsYoung
<1>2. CASE r.pc # "shown"
  <2>1. r.row \in ProblemVersions /\ r.tags \in ProblemVersions /\ r.spent \in Nat
    BY <1>2, PagesAssumption DEF PageCallRecord, PageCallUnderWay
  <2> QED
    BY <2>1, <1>2 DEF CallIsYoung
<1> QED
  BY <1>1, <1>2

(* A step that moves one call and perhaps commits, but leaves the key. *)
LEMMA OneCallMoves ==
    ASSUME PageInv, NEW c \in PageCalls, NEW r \in PageCallRecord,
           pageCall' = [pageCall EXCEPT ![c] = r], CallIsYoung(r)', page' = page,
           (\E s : Commit(s)) \/ UNCHANGED <<current, outdated>>
    PROVE  PageInv'
<1>1. /\ current'.version \in ProblemVersions /\ outdated' \in [ProblemVersions -> -1..Timeless]
      /\ \A v \in ProblemVersions : v >= current'.version => outdated'[v] = -1
      /\ \A v \in ProblemVersions, a \in Nat : outdated[v] <= a => outdated'[v] <= a
  <2>1. CASE \E s : Commit(s)
    BY <2>1, CommitKeeps
  <2>2. CASE UNCHANGED <<current, outdated>>
    BY <2>2 DEF PageInv, PagesShape
  <2> QED
    BY <2>1, <2>2
<1>2. PagesShape'
  BY <1>1 DEF PageInv, PagesShape
<1>3. KeyIsYoung'
  BY <1>1, KeyKept
<1>4. ASSUME NEW d \in PageCalls PROVE CallIsYoung(pageCall[d])'
  <2>1. CASE d = c
    <3>1. pageCall'[d] = r
      BY <2>1 DEF PageInv, PagesShape
    <3> QED
      BY <3>1 DEF CallIsYoung
  <2>2. CASE d # c
    <3>1. pageCall'[d] = pageCall[d] /\ pageCall[d] \in PageCallRecord /\ CallIsYoung(pageCall[d])
      BY <2>2 DEF PageInv, PagesShape
    <3>2. PICK q \in PageCallRecord : q = pageCall[d]
      BY <3>1
    <3>3. CallIsYoung(q)'
      BY <1>1, <3>1, <3>2, CallKept
    <3> QED
      BY <3>1, <3>2, <3>3 DEF CallIsYoung
  <2> QED
    BY <2>1, <2>2
<1> QED
  BY <1>2, <1>3, <1>4 DEF PageInv

(* A step that writes the key and moves one call, without a commit. *)
LEMMA KeyWritten ==
    ASSUME PageInv, NEW c \in PageCalls, NEW r \in PageCallRecord,
           pageCall' = [pageCall EXCEPT ![c] = r], CallIsYoung(r),
           page' \in [row : ProblemVersions, tags : ProblemVersions, left : 0..PageTTL], KeyIsYoung',
           UNCHANGED <<current, outdated>>
    PROVE  PageInv'
<1>1. PagesShape'
  BY DEF PageInv, PagesShape
<1>2. ASSUME NEW d \in PageCalls PROVE CallIsYoung(pageCall[d])'
  BY DEF PageInv, PagesShape, CallIsYoung
<1> QED
  BY <1>1, <1>2 DEF PageInv

LEMMA AgeIsBounded ==
    ASSUME PageInv, NEW p, p.row \in ProblemVersions, p.tags \in ProblemVersions
    PROVE  /\ AgeOf(p) \in -1..Timeless
           /\ \A a \in Int : outdated[p.row] <= a /\ outdated[p.tags] <= a => AgeOf(p) <= a
  BY DEF PageInv, PagesShape, AgeOf

LEMMA ShowKeeps ==
    ASSUME PageInv, NEW c \in PageCalls, NEW p, p.row \in ProblemVersions, p.tags \in ProblemVersions,
           outdated[p.row] <= PageTTL + PageCallTimeout, outdated[p.tags] <= PageTTL + PageCallTimeout,
           NEW r, r = [pc |-> "shown", age |-> AgeOf(p)]
    PROVE  r \in PageCallRecord /\ CallIsYoung(r)
<1>1. AgeOf(p) \in -1..Timeless /\ AgeOf(p) <= PageTTL + PageCallTimeout
  BY AgeIsBounded, PagesAssumption
<1> QED
  BY <1>1 DEF PageCallRecord, CallIsYoung

(* A call at a step other than "shown" has a record of the first form. *)
LEMMA CallShape ==
    ASSUME PageInv, NEW c \in PageCalls, pageCall[c].pc # "shown"
    PROVE  /\ pageCall[c] \in PageCallUnderWay
           /\ CallIsYoung(pageCall[c])
  BY DEF PageInv, PagesShape, PageCallRecord

LEMMA RestFits == NoPageCall \in PageCallRecord /\ CallIsYoung(NoPageCall)
  BY PagesAssumption DEF NoPageCall, PageCallRecord, PageCallUnderWay, CallSteps, ProblemVersions, CallIsYoung

(* What a call under way becomes when it moves on with what it has read. *)
LEMMA CallMovesOn ==
    ASSUME NEW q \in PageCallUnderWay, NEW pc \in CallSteps
    PROVE  /\ [q EXCEPT !.pc = pc] \in PageCallUnderWay
           /\ \A v \in ProblemVersions :
                /\ [q EXCEPT !.pc = pc, !.row = v] \in PageCallUnderWay
                /\ [q EXCEPT !.pc = pc, !.tags = v] \in PageCallUnderWay
                /\ [q EXCEPT !.pc = pc, !.row = v, !.tags = v] \in PageCallUnderWay
  BY DEF PageCallUnderWay

-----------------------------------------------------------------------------
LEMMA ReadingKeeps ==
    ASSUME PageInv, NEW c \in PageCalls, GetPage(c) \/ FindRow(c) \/ FindTags(c) \/ CachePage(c)
    PROVE  PageInv'
<1>1. CASE GetPage(c) /\ Cached /\ Show(c, page)
  <2>1. PICK r : r = [pc |-> "shown", age |-> AgeOf(page)]
    OBVIOUS
  <2>2. r \in PageCallRecord /\ CallIsYoung(r)
    <3>1. page.row \in ProblemVersions /\ page.tags \in ProblemVersions /\ page.left \in 0..PageTTL
      BY DEF PageInv, PagesShape
    <3>2. outdated[page.row] \in Int /\ outdated[page.tags] \in Int
      BY <3>1 DEF PageInv, PagesShape
    <3>3. outdated[page.row] <= PageTTL + PageCallTimeout /\ outdated[page.tags] <= PageTTL + PageCallTimeout
      BY <1>1, <3>1, <3>2, PagesAssumption DEF PageInv, KeyIsYoung, Cached
    <3> QED
      BY <2>1, <3>1, <3>3, ShowKeeps
  <2>3. pageCall' = [pageCall EXCEPT ![c] = r] /\ UNCHANGED <<current, outdated, page>>
    BY <1>1, <2>1 DEF GetPage, Show
  <2>4. CallIsYoung(r)'
    BY <2>2, <2>3 DEF CallIsYoung
  <2> QED
    BY <2>2, <2>3, <2>4, OneCallMoves
<1>2. CASE GetPage(c) /\ Proceed(c, "finding")
  <2>1. pageCall[c].pc = "idle"
    BY <1>2 DEF GetPage, InCall
  <2>2. PICK r : r = [pageCall[c] EXCEPT !.pc = "finding"]
    OBVIOUS
  <2>3. r \in PageCallUnderWay /\ r.pc = "finding"
    BY <2>1, <2>2, CallShape DEF PageCallUnderWay, CallSteps
  <2>4. pageCall' = [pageCall EXCEPT ![c] = r] /\ UNCHANGED <<current, outdated, page>>
    BY <1>2, <2>2 DEF GetPage, Proceed, PageInv, PagesShape
  <2>5. CallIsYoung(r)'
    BY <2>3 DEF CallIsYoung
  <2> QED
    BY <2>3, <2>4, <2>5, OneCallMoves DEF PageCallRecord
<1>3. CASE FindRow(c) /\ current.status = "absent"
  <2>1. pageCall' = [pageCall EXCEPT ![c] = NoPageCall] /\ UNCHANGED <<current, outdated, page>>
    BY <1>3 DEF FindRow, EndCall
  <2>2. CallIsYoung(NoPageCall)'
    BY <2>1, RestFits DEF CallIsYoung
  <2> QED
    BY <2>1, <2>2, RestFits, OneCallMoves
<1>4. CASE FindRow(c) /\ current.status # "absent"
  <2>1. pageCall[c].pc = "finding"
    BY <1>4 DEF FindRow, InCall
  <2>2. PICK r : r = [pageCall[c] EXCEPT !.pc = "tags", !.row = current.version]
    OBVIOUS
  <2>3. /\ pageCall[c] \in PageCallUnderWay
        /\ current.version \in ProblemVersions /\ outdated[current.version] = -1
    BY <2>1, CallShape, PagesAssumption DEF PageInv, PagesShape, ProblemVersions
  <2>4. r \in PageCallUnderWay /\ r.pc = "tags" /\ r.row = current.version /\ r.spent \in Nat
    <3>1. r \in PageCallUnderWay
      BY <2>2, <2>3, CallMovesOn DEF CallSteps
    <3>2. pageCall[c].spent \in Nat
      BY <2>3, PagesAssumption DEF PageCallUnderWay
    <3> QED
      BY <2>2, <2>3, <3>1, <3>2 DEF PageCallUnderWay
  <2>5. pageCall' = [pageCall EXCEPT ![c] = r] /\ UNCHANGED <<current, outdated, page>>
    BY <1>4, <2>2 DEF FindRow, PageInv, PagesShape
  <2>6. CallIsYoung(r)'
    BY <2>3, <2>4, <2>5 DEF CallIsYoung
  <2> QED
    BY <2>4, <2>5, <2>6, OneCallMoves DEF PageCallRecord
<1>5. CASE FindTags(c)
  <2>1. pageCall[c].pc = "tags"
    BY <1>5 DEF FindTags, InCall
  <2>2. PICK r : r = [pageCall[c] EXCEPT !.pc = "found", !.tags = current.version]
    OBVIOUS
  <2>3. /\ pageCall[c] \in PageCallUnderWay
        /\ current.version \in ProblemVersions /\ outdated[current.version] = -1
        /\ outdated[pageCall[c].row] <= pageCall[c].spent
    BY <2>1, CallShape, PagesAssumption DEF PageInv, PagesShape, ProblemVersions, CallIsYoung
  <2>4. /\ r \in PageCallUnderWay /\ r.pc = "found" /\ r.tags = current.version /\ r.row = pageCall[c].row
        /\ r.spent = pageCall[c].spent /\ r.spent \in Nat
    <3>1. r \in PageCallUnderWay
      BY <2>2, <2>3, CallMovesOn DEF CallSteps
    <3>2. pageCall[c].spent \in Nat
      BY <2>3, PagesAssumption DEF PageCallUnderWay
    <3> QED
      BY <2>2, <2>3, <3>1, <3>2 DEF PageCallUnderWay
  <2>5. pageCall' = [pageCall EXCEPT ![c] = r] /\ UNCHANGED <<current, outdated, page>>
    BY <1>5, <2>2 DEF FindTags, PageInv, PagesShape
  <2>6. CallIsYoung(r)'
    BY <2>3, <2>4, <2>5 DEF CallIsYoung
  <2> QED
    BY <2>4, <2>5, <2>6, OneCallMoves DEF PageCallRecord
<1>6. CASE CachePage(c)
  <2>1. pageCall[c].pc = "found"
    BY <1>6 DEF CachePage, InCall
  <2>2. PICK r : r = [pc |-> "shown", age |-> AgeOf(pageCall[c])]
    OBVIOUS
  <2>3. /\ pageCall[c].row \in ProblemVersions /\ pageCall[c].tags \in ProblemVersions
        /\ pageCall[c].spent \in 0..PageCallTimeout
        /\ outdated[pageCall[c].row] <= pageCall[c].spent /\ outdated[pageCall[c].tags] <= pageCall[c].spent
    BY <2>1, CallShape DEF CallIsYoung, PageCallUnderWay
  <2>4. outdated[pageCall[c].row] \in Int /\ outdated[pageCall[c].tags] \in Int
    BY <2>3 DEF PageInv, PagesShape
  <2>5. /\ outdated[pageCall[c].row] <= PageCallTimeout /\ outdated[pageCall[c].tags] <= PageCallTimeout
        /\ outdated[pageCall[c].row] <= PageTTL + PageCallTimeout
        /\ outdated[pageCall[c].tags] <= PageTTL + PageCallTimeout
    BY <2>3, <2>4, PagesAssumption
  <2>6. r \in PageCallRecord /\ CallIsYoung(r)
    BY <2>2, <2>3, <2>5, ShowKeeps
  <2>7. pageCall' = [pageCall EXCEPT ![c] = r] /\ UNCHANGED <<current, outdated>>
    BY <1>6, <2>2 DEF CachePage, Show
  <2>8. \/ page' = [row |-> pageCall[c].row, tags |-> pageCall[c].tags, left |-> PageTTL]
        \/ page' = page
    BY <1>6 DEF CachePage, SetPage
  <2>9. page' \in [row : ProblemVersions, tags : ProblemVersions, left : 0..PageTTL]
    BY <2>3, <2>8, PagesAssumption DEF PageInv, PagesShape
  <2>10. KeyIsYoung'
    <3>1. CASE page' = page
      BY <2>7, <3>1 DEF PageInv, KeyIsYoung, Cached
    <3>2. CASE page' = [row |-> pageCall[c].row, tags |-> pageCall[c].tags, left |-> PageTTL]
      <4>1. page'.row = pageCall[c].row /\ page'.tags = pageCall[c].tags /\ page'.left = PageTTL
        BY <3>2
      <4>2. PageCallTimeout + PageTTL - PageTTL = PageCallTimeout
        BY PagesAssumption
      <4> QED
        BY <2>5, <2>7, <4>1, <4>2 DEF KeyIsYoung, Cached
    <3> QED
      BY <2>8, <3>1, <3>2
  <2> QED
    BY <2>6, <2>7, <2>9, <2>10, KeyWritten
<1> QED
  BY <1>1, <1>2, <1>3, <1>4, <1>5, <1>6 DEF GetPage

(* A step of a call that writes: what it remembers stays inside the         *)
(* versions, and only a creation remembers something it may put into the    *)
(* key, which is the version it has just made.                              *)
LEMMA WritingKeeps ==
    ASSUME PageInv, NEW c \in PageCalls,
           CreatePage(c) \/ AddCreatedCase(c) \/ UndoProblem(c) \/ ChangeProblem(c) \/ LeavePage(c)
    PROVE  PageInv'
<1>1. ASSUME EndCall(c), page' = page, (\E s : Commit(s)) \/ UNCHANGED <<current, outdated>> PROVE PageInv'
  <2>1. pageCall' = [pageCall EXCEPT ![c] = NoPageCall] /\ NoPageCall \in PageCallRecord
    BY <1>1, RestFits DEF EndCall
  <2>2. CallIsYoung(NoPageCall)'
    BY RestFits DEF CallIsYoung, NoPageCall
  <2> QED
    BY <1>1, <2>1, <2>2, OneCallMoves
<1>2. CASE CreatePage(c)
  <2>1. pageCall[c].pc = "idle" /\ current.version = 0 /\ Commit("normal")
    BY <1>2 DEF CreatePage, InCall
  <2>2. /\ current'.version = 1 /\ 1 \in ProblemVersions /\ outdated'[1] = -1
    BY <2>1, CommitKeeps
  <2>3. pageCall[c] \in PageCallUnderWay /\ pageCall[c].spent \in Nat
    BY <2>1, CallShape, PagesAssumption DEF PageCallUnderWay
  <2>4. PICK r : r = [pageCall[c] EXCEPT !.pc = "created", !.row = 1, !.tags = 1]
    OBVIOUS
  <2>5. r \in PageCallUnderWay
    BY <2>2, <2>3, <2>4, CallMovesOn DEF CallSteps
  <2>6. r.pc = "created" /\ r.row = 1 /\ r.tags = 1 /\ r.spent \in Nat
    BY <2>3, <2>4, <2>5 DEF PageCallUnderWay
  <2>7. pageCall' = [pageCall EXCEPT ![c] = r] /\ page' = page
    BY <1>2, <2>4 DEF CreatePage, PageInv, PagesShape
  <2>8. CallIsYoung(r)'
    BY <2>2, <2>6 DEF CallIsYoung
  <2> QED
    BY <2>1, <2>5, <2>7, <2>8, OneCallMoves DEF PageCallRecord
<1>3. CASE AddCreatedCase(c) /\ EndCall(c)
  BY <1>1, <1>3 DEF AddCreatedCase
<1>4. CASE AddCreatedCase(c) /\ UNCHANGED pageCall
  <2>1. pageCall[c].pc = "adding" /\ Commit("normal") /\ page' = page
    BY <1>4 DEF AddCreatedCase, InCall
  <2>2. PICK r : r = pageCall[c]
    OBVIOUS
  <2>3. r \in PageCallRecord /\ pageCall' = [pageCall EXCEPT ![c] = r]
    BY <1>4, <2>2 DEF PageInv, PagesShape
  <2>4. CallIsYoung(r)'
    BY <2>1, <2>2 DEF CallIsYoung
  <2> QED
    BY <2>1, <2>3, <2>4, OneCallMoves
<1>5. CASE UndoProblem(c)
  BY <1>1, <1>5 DEF UndoProblem
<1>6. CASE ChangeProblem(c)
  <2>1. pageCall[c].pc = "idle" /\ (\E s : Commit(s)) /\ page' = page
    BY <1>6 DEF ChangeProblem, InCall
  <2>2. PICK r : r = [pageCall[c] EXCEPT !.pc = "changed"]
    OBVIOUS
  <2>3. r \in PageCallUnderWay /\ r.pc = "changed"
    <3>1. pageCall[c] \in PageCallUnderWay
      BY <2>1, CallShape
    <3> QED
      BY <2>2, <3>1 DEF CallSteps, PageCallUnderWay
  <2>4. pageCall' = [pageCall EXCEPT ![c] = r]
    BY <1>6, <2>2 DEF ChangeProblem, Proceed, PageInv, PagesShape
  <2>5. CallIsYoung(r)'
    BY <2>3 DEF CallIsYoung
  <2> QED
    BY <2>1, <2>3, <2>4, <2>5, OneCallMoves DEF PageCallRecord
<1>7. CASE LeavePage(c)
  BY <1>1, <1>7 DEF LeavePage
<1> QED
  BY <1>2, <1>3, <1>4, <1>5, <1>6, <1>7 DEF AddCreatedCase

(* The steps that write the key. *)
LEMMA KeyStepKeeps ==
    ASSUME PageInv, NEW c \in PageCalls, CacheCreated(c) \/ UndoPage(c) \/ ForgetPage(c)
    PROVE  PageInv'
<1>1. NoCachedPage \in [row : ProblemVersions, tags : ProblemVersions, left : 0..PageTTL]
  BY PagesAssumption DEF NoCachedPage, ProblemVersions
<1>2. ASSUME DeletePage, UNCHANGED <<current, outdated>>
      PROVE  /\ page' \in [row : ProblemVersions, tags : ProblemVersions, left : 0..PageTTL]
             /\ KeyIsYoung'
  <2>1. CASE page' = NoCachedPage
    BY <1>1, <2>1 DEF KeyIsYoung, Cached, NoCachedPage
  <2>2. CASE page' = page
    BY <1>2, <2>2 DEF PageInv, PagesShape, KeyIsYoung, Cached
  <2> QED
    BY <1>2, <2>1, <2>2 DEF DeletePage
<1>3. CASE CacheCreated(c)
  <2>1. pageCall[c].pc = "created" /\ UNCHANGED <<current, outdated>>
    BY <1>3 DEF CacheCreated, InCall
  <2>2. PICK r : r = [pageCall[c] EXCEPT !.pc = "adding"]
    OBVIOUS
  <2>3. r \in PageCallUnderWay /\ r.pc = "adding"
    <3>1. pageCall[c] \in PageCallUnderWay
      BY <2>1, CallShape
    <3> QED
      BY <2>2, <3>1 DEF CallSteps, PageCallUnderWay
  <2>4. pageCall' = [pageCall EXCEPT ![c] = r]
    BY <1>3, <2>2 DEF CacheCreated, Proceed, PageInv, PagesShape
  <2>5. CallIsYoung(r)
    BY <2>3 DEF CallIsYoung
  <2>6. /\ pageCall[c].row \in ProblemVersions /\ pageCall[c].tags \in ProblemVersions
        /\ pageCall[c].spent \in 0..PageCallTimeout
        /\ outdated[pageCall[c].row] <= pageCall[c].spent /\ outdated[pageCall[c].tags] <= pageCall[c].spent
    BY <2>1, CallShape DEF CallIsYoung, PageCallUnderWay
  <2>7. outdated[pageCall[c].row] \in Int /\ outdated[pageCall[c].tags] \in Int
    BY <2>6 DEF PageInv, PagesShape
  <2>8. outdated[pageCall[c].row] <= PageCallTimeout /\ outdated[pageCall[c].tags] <= PageCallTimeout
    BY <2>6, <2>7, PagesAssumption
  <2>9. \/ page' = [row |-> pageCall[c].row, tags |-> pageCall[c].tags, left |-> PageTTL]
        \/ page' = page
    BY <1>3 DEF CacheCreated, SetPage
  <2>10. page' \in [row : ProblemVersions, tags : ProblemVersions, left : 0..PageTTL]
    BY <2>6, <2>9, PagesAssumption DEF PageInv, PagesShape
  <2>11. KeyIsYoung'
    <3>1. CASE page' = page
      BY <2>1, <3>1 DEF PageInv, KeyIsYoung, Cached
    <3>2. CASE page' = [row |-> pageCall[c].row, tags |-> pageCall[c].tags, left |-> PageTTL]
      <4>1. page'.row = pageCall[c].row /\ page'.tags = pageCall[c].tags /\ page'.left = PageTTL
        BY <3>2
      <4>2. PageCallTimeout + PageTTL - PageTTL = PageCallTimeout
        BY PagesAssumption
      <4> QED
        BY <2>1, <2>8, <4>1, <4>2 DEF KeyIsYoung, Cached
    <3> QED
      BY <2>9, <3>1, <3>2
  <2> QED
    BY <2>1, <2>3, <2>4, <2>5, <2>10, <2>11, KeyWritten DEF PageCallRecord
<1>4. CASE UndoPage(c)
  <2>1. pageCall[c].pc = "adding" /\ UNCHANGED <<current, outdated>>
    BY <1>4 DEF UndoPage, InCall
  <2>2. PICK r : r = [pageCall[c] EXCEPT !.pc = "undoing"]
    OBVIOUS
  <2>3. r \in PageCallUnderWay /\ r.pc = "undoing"
    <3>1. pageCall[c] \in PageCallUnderWay
      BY <2>1, CallShape
    <3> QED
      BY <2>2, <3>1 DEF CallSteps, PageCallUnderWay
  <2>4. pageCall' = [pageCall EXCEPT ![c] = r]
    BY <1>4, <2>2 DEF UndoPage, Proceed, PageInv, PagesShape
  <2>5. CallIsYoung(r)
    BY <2>3 DEF CallIsYoung
  <2> QED
    BY <1>2, <1>4, <2>1, <2>3, <2>4, <2>5, KeyWritten DEF PageCallRecord, UndoPage
<1>5. CASE ForgetPage(c)
  <2>1. UNCHANGED <<current, outdated>> /\ DeletePage /\ pageCall' = [pageCall EXCEPT ![c] = NoPageCall]
    BY <1>5 DEF ForgetPage, EndCall
  <2> QED
    BY <1>2, <2>1, RestFits, KeyWritten
<1> QED
  BY <1>3, <1>4, <1>5

LEMMA TestcasesKeep == ASSUME PageInv, ChangeTestcases PROVE PageInv'
<1>1. Commit("normal") /\ page' = page /\ pageCall' = pageCall
  BY DEF ChangeTestcases
<1>2. /\ current'.version \in ProblemVersions /\ outdated' \in [ProblemVersions -> -1..Timeless]
      /\ \A v \in ProblemVersions : v >= current'.version => outdated'[v] = -1
      /\ \A v \in ProblemVersions, a \in Nat : outdated[v] <= a => outdated'[v] <= a
  BY <1>1, CommitKeeps
<1>3. PagesShape'
  BY <1>1, <1>2 DEF PageInv, PagesShape
<1>4. KeyIsYoung'
  BY <1>1, <1>2, KeyKept
<1>5. ASSUME NEW d \in PageCalls PROVE CallIsYoung(pageCall[d])'
  <2>1. PICK q \in PageCallRecord : q = pageCall[d]
    BY DEF PageInv, PagesShape
  <2>2. CallIsYoung(q)'
    BY <1>2, <2>1, CallKept DEF PageInv
  <2> QED
    BY <1>1, <2>1, <2>2 DEF CallIsYoung
<1> QED
  BY <1>3, <1>4, <1>5 DEF PageInv

(* Time goes on: every age grows by at most one, the key's time shrinks by  *)
(* one, and a call under way has spent one more.                            *)
LEMMA TickKeeps == ASSUME PageInv, PageTick PROVE PageInv'
<1>1. /\ outdated' = [v \in ProblemVersions |-> IF outdated[v] \in {-1, Timeless} THEN outdated[v] ELSE outdated[v] + 1]
      /\ page' = IF page.left > 1 THEN [page EXCEPT !.left = @ - 1] ELSE NoCachedPage
      /\ current' = current
  BY DEF PageTick
<1>2. /\ outdated \in [ProblemVersions -> -1..Timeless] /\ current.version \in ProblemVersions
      /\ \A v \in ProblemVersions : v >= current.version => outdated[v] = -1
      /\ page \in [row : ProblemVersions, tags : ProblemVersions, left : 0..PageTTL]
  BY DEF PageInv, PagesShape
<1>3. Timeless \in Nat
  BY PagesAssumption DEF Timeless
<1>4. outdated' \in [ProblemVersions -> -1..Timeless]
  BY <1>1, <1>2, <1>3
<1>5. \A v \in ProblemVersions : outdated'[v] <= outdated[v] + 1 /\ (outdated[v] = -1 => outdated'[v] = -1)
  BY <1>1, <1>2, <1>3
<1>6. \A v \in ProblemVersions : outdated[v] \in Int /\ outdated'[v] \in Int
  BY <1>2, <1>4, <1>3
<1>7. page' \in [row : ProblemVersions, tags : ProblemVersions, left : 0..PageTTL] /\ KeyIsYoung'
  <2>1. CASE page.left > 1
    <3>1. page' = [page EXCEPT !.left = page.left - 1]
      BY <1>1, <2>1
    <3>2. /\ page'.row = page.row /\ page'.tags = page.tags /\ page'.left = page.left - 1
          /\ page.left \in 0..PageTTL /\ page.row \in ProblemVersions /\ page.tags \in ProblemVersions
      BY <1>2, <3>1
    <3>3. page' \in [row : ProblemVersions, tags : ProblemVersions, left : 0..PageTTL]
      BY <1>2, <2>1, <3>1, <3>2, PagesAssumption
    <3>4. /\ outdated[page.row] <= PageCallTimeout + PageTTL - page.left
          /\ outdated[page.tags] <= PageCallTimeout + PageTTL - page.left
      BY <2>1, <3>2, PagesAssumption DEF PageInv, KeyIsYoung, Cached
    <3>5. /\ outdated'[page.row] <= PageCallTimeout + PageTTL - (page.left - 1)
          /\ outdated'[page.tags] <= PageCallTimeout + PageTTL - (page.left - 1)
      BY <1>5, <1>6, <3>2, <3>4, PagesAssumption
    <3> QED
      BY <3>2, <3>3, <3>5 DEF KeyIsYoung
  <2>2. CASE ~(page.left > 1)
    <3>1. page' = NoCachedPage
      BY <1>1, <2>2
    <3> QED
      BY <3>1, PagesAssumption DEF NoCachedPage, ProblemVersions, KeyIsYoung, Cached
  <2> QED
    BY <2>1, <2>2
<1>8. ASSUME NEW c \in PageCalls PROVE pageCall'[c] \in PageCallRecord /\ CallIsYoung(pageCall[c])'
  <2>1. pageCall[c] \in PageCallRecord /\ CallIsYoung(pageCall[c])
    BY DEF PageInv, PagesShape
  <2>2. CASE pageCall[c].pc = "shown"
    <3>1. pageCall'[c] = pageCall[c]
      BY <2>2 DEF PageTick
    <3> QED
      BY <2>1, <2>2, <3>1 DEF CallIsYoung
  <2>3. CASE pageCall[c].pc = "idle"
    <3>1. pageCall'[c] = pageCall[c]
      BY <2>3 DEF PageTick
    <3> QED
      BY <2>1, <2>3, <3>1 DEF CallIsYoung
  <2>4. CASE pageCall[c].pc \notin {"idle", "shown"}
    <3>1. pageCall[c] \in PageCallUnderWay /\ pageCall[c].spent < PageCallTimeout
      BY <2>1, <2>4 DEF PageTick, PageCallRecord
    <3>2. pageCall'[c] = [pageCall[c] EXCEPT !.spent = pageCall[c].spent + 1]
      BY <2>4 DEF PageTick
    <3>3. /\ pageCall[c].row \in ProblemVersions /\ pageCall[c].tags \in ProblemVersions
          /\ pageCall[c].spent \in 0..PageCallTimeout /\ pageCall[c].spent \in Nat
          /\ pageCall[c].spent + 1 \in 0..PageCallTimeout
      BY <3>1, PagesAssumption DEF PageCallUnderWay
    <3>4. pageCall'[c] \in PageCallUnderWay
      BY <3>1, <3>2, <3>3 DEF PageCallUnderWay
    <3>5. /\ pageCall'[c].pc = pageCall[c].pc /\ pageCall'[c].row = pageCall[c].row
          /\ pageCall'[c].tags = pageCall[c].tags /\ pageCall'[c].spent = pageCall[c].spent + 1
      BY <3>1, <3>2 DEF PageCallUnderWay
    <3>6. \A v \in ProblemVersions : outdated[v] <= pageCall[c].spent => outdated'[v] <= pageCall[c].spent + 1
      BY <1>5, <1>6, <3>3
    <3> QED
      BY <2>1, <2>4, <3>3, <3>4, <3>5, <3>6 DEF CallIsYoung, PageCallRecord
  <2> QED
    BY <2>2, <2>3, <2>4
<1>9. pageCall' \in [PageCalls -> PageCallRecord]
  <2>1. pageCall' = [c \in PageCalls |-> pageCall'[c]]
    BY DEF PageTick
  <2> QED
    BY <1>8, <2>1
<1>10. PagesShape'
  BY <1>1, <1>2, <1>4, <1>5, <1>7, <1>9 DEF PagesShape
<1> QED
  BY <1>7, <1>8, <1>10 DEF PageInv

(* The pages of a problem go (Get, Update, Archive and the undoing of a     *)
(* Create): whatever Redis commands fail, whichever reader or creation puts *)
(* an old page back and however often it is read, nobody is shown what has  *)
(* been out of date for longer than the time to live and one call.          *)
THEOREM PagesGrowOldAndGo == PagesSpec => []OldPagesGo
<1>1. PageInv /\ [PagesNext]_pagesVars => PageInv'
  <2> SUFFICES ASSUME PageInv, [PagesNext]_pagesVars PROVE PageInv'
    OBVIOUS
  <2>1. CASE UNCHANGED pagesVars
    BY <2>1 DEF PageInv, PagesShape, KeyIsYoung, Cached, CallIsYoung, pagesVars
  <2>2. CASE PagesNext
    BY <2>2, ReadingKeeps, WritingKeeps, KeyStepKeeps, TestcasesKeep, TickKeeps DEF PagesNext
  <2> QED
    BY <2>1, <2>2
<1>2. PageInv => OldPagesGo
  BY PagesAssumption DEF PageInv, CallIsYoung, OldPagesGo, InCall
<1> QED
  BY PagesStart, <1>1, <1>2, PTL DEF PagesSpec
=============================================================================
