--------------------------- MODULE Sidecar_proofs ---------------------------
(***************************************************************************)
(* Theorems about Sidecar, for any number of node and manager threads, any *)
(* fingerprints and requests and any bounds.  The invariant says what the  *)
(* holder of a lock may rely on between its read of a sidecar and its      *)
(* write: the core entry, the system block and the user block it has read  *)
(* are still those on disk.                                                *)
(***************************************************************************)
EXTENDS Sidecar, TLAPS

\* Who is in a section holds the lock of its target.
Holding == \A t \in Threads : pc[t] \in SectionPcs => fpLock[Target(t)] = t

\* Which requests reach which sections.
Routes ==
    \A t \in Threads :
        /\ pc[t] \in {"unlinkCore", "unlinkSide", "unlinkThumbs"} => stage[t] = "delete"
        /\ pc[t] \in {"plan", "user", "write"} => stage[t] # "delete"
        /\ pc[t] = "user" => stage[t] # "update"

\* What is about to be written is a sidecar of something that is there, and
\* what it keeps of the sidecar on disk.
PlanOf(t) ==
    /\ pc[t] \in {"user", "write"} =>
          plan[t].exists /\ (core[Target(t)] # 0 \/ side[Target(t)].exists)
    /\ (~misread /\ pc[t] \in {"user", "write"} /\ side[Target(t)].exists) =>
          /\ side[Target(t)].created # 0 => plan[t].created = side[Target(t)].created
          /\ side[Target(t)].pair # NoFp => plan[t].pair # NoFp
    /\ (~misread /\ pc[t] = "write" /\ stage[t] # "update") =>
          plan[t].user = edited[Target(t)]
    /\ (~misread /\ pc[t] = "write" /\ stage[t] = "update") =>
          plan[t] = [side[Target(t)] EXCEPT !.user = plan[t].user]
Plans == \A t \in Threads : PlanOf(t)

\* Without an entry there is no edit to lose either.
Edits == ~misread => \A f \in Fps : side[f].user = edited[f]

\* A Delete takes the sidecar before the thumbnails.
Gone == \A t \in Threads : pc[t] = "unlinkThumbs" => ~side[Target(t)].exists

SideInv == TypeOK /\ Holding /\ Routes /\ Plans /\ Edits /\ Gone /\ NoPhantom

\* The parts of TypeOK.
DiskTypes ==
    /\ core \in [Fps -> Nat] /\ torn \subseteq Fps /\ clock \in Nat
    /\ side \in [Fps -> Sides] /\ thumbs \subseteq Fps
ThreadTypes ==
    /\ fpLock \in [Fps -> Threads \cup {NoThread}]
    /\ pc \in [Threads -> SectionPcs \cup {"idle", "encode", "enter", "done"}]
    /\ job \in [Threads -> Jobs] /\ second \in [Threads -> BOOLEAN]
    /\ stage \in [Threads -> Stages]
    /\ outcome \in [Threads -> {"none", "hit", "written", "unwritten"}]
PlanTypes == plan \in [Threads -> Sides]
HistoryTypes ==
    /\ edited \in [Fps -> Users] /\ misread \in BOOLEAN /\ halfDeleted \subseteq Fps
    /\ opsLeft \in Nat /\ faultsLeft \in Nat

-----------------------------------------------------------------------------
(* Targets, sections and what they make of a sidecar.                      *)

\* A section is about a fingerprint.
LEMMA TargetType ==
    ASSUME TypeOK, NEW t \in Threads
    PROVE  Target(t) \in Fps
<1>1. job[t].a \in Fps /\ job[t].b \in Fps
  BY DEF TypeOK, Jobs
<1> QED
  BY <1>1 DEF Target, PassFp

\* What a step of one thread leaves alone of another.
Others(u) ==
    /\ Target(u)' = Target(u)
    /\ pc'[u] = pc[u] /\ stage'[u] = stage[u] /\ plan'[u] = plan[u]

\* The target is decided by the request, the pass and the stage.
LEMMA TargetsStay ==
    ASSUME UNCHANGED <<job, second, stage>>, NEW t \in Threads
    PROVE  Target(t)' = Target(t)
  BY DEF Target, PassFp

\* A step of t is none of another thread.
LEMMA OtherThreads ==
    ASSUME TypeOK, NEW t \in Threads, NEW u \in Threads \ {t},
           Step(t) \/ \E r \in Requests : Start(t, r)
    PROVE  Others(u)
<1>1. /\ job'[u] = job[u] /\ second'[u] = second[u] /\ stage'[u] = stage[u]
      /\ pc'[u] = pc[u] /\ plan'[u] = plan[u]
  BY DEF TypeOK, Step, Start, Encode, EncodeRaises, Enter, EnterTimeout, PlanSection,
         CarryUser, Write, UnlinkCore, UnlinkSide, UnlinkThumbs, UnlinkFails, Leave, Return, Go
<1> QED
  BY <1>1 DEF Others, Target, PassFp

\* The steps within a section, and into it.
Section(t) ==
    \/ EncodeRaises(t) \/ Enter(t) \/ EnterTimeout(t) \/ PlanSection(t) \/ CarryUser(t)
    \/ Write(t) \/ UnlinkCore(t) \/ UnlinkSide(t) \/ UnlinkThumbs(t)

\* A section keeps its target.
LEMMA OwnTarget ==
    ASSUME NEW t \in Threads, Section(t)
    PROVE  Target(t)' = Target(t)
<1>1. UNCHANGED <<job, second, stage>>
  BY DEF Section, EncodeRaises, Enter, EnterTimeout, PlanSection, CarryUser, Write,
         UnlinkCore, UnlinkSide, UnlinkThumbs
<1> QED
  BY <1>1, TargetsStay

\* What follows a section.
LEMMA AfterType ==
    ASSUME TypeOK, NEW t \in Threads
    PROVE  /\ After(t)[1] \in {"enter", "encode", "done"}
           /\ After(t)[2] \in Stages /\ After(t)[3] \in BOOLEAN
<1>1. /\ stage[t] \in Stages /\ second[t] \in BOOLEAN
      /\ TRUE \in BOOLEAN
      /\ {"sync", "refs", "pairA", "pairB", "size"} \subseteq Stages
  BY DEF TypeOK, Stages
<1>2. /\ AfterPass(t)[1] \in {"enter", "encode", "done"}
      /\ AfterPass(t)[2] \in Stages /\ AfterPass(t)[3] \in BOOLEAN
  BY <1>1 DEF AfterPass
<1> QED
  BY <1>1, <1>2 DEF After

\* A section makes a sidecar of a sidecar ...
LEMMA PlannedIsSide ==
    ASSUME TypeOK, NEW t \in Threads, NEW v \in Sides
    PROVE  Planned(t, v) \in Sides
<1> USE DEF TypeOK
<1>1. /\ job[t].a \in Fps /\ job[t].b \in Fps /\ job[t].user \in Users
      /\ job[t].sa \in Sizes \cup {NoSize} /\ job[t].sb \in Sizes \cup {NoSize}
  BY DEF Jobs
<1>2. PassSize(t) \in Sizes \cup {NoSize} /\ PassFp(t) \in Fps
  BY <1>1 DEF PassSize, PassFp
<1>3. CreatedAt(t, v) \in Nat
  BY <1>2 DEF CreatedAt, Sides
<1>4. Synced(t, v) \in Sides
  BY <1>2, <1>3 DEF Synced, Sides
<1>5. Traced(v, job[t].trace) \in Sides
  BY DEF Traced, Sides
<1>6. Paired(v, job[t].b, job[t].sb, FALSE) \in Sides /\ Paired(v, job[t].a, job[t].sa, TRUE) \in Sides
  BY <1>1 DEF Paired, Sides
<1>7. Resized(v, job[t].sa) \in Sides /\ Edited(v, job[t].user) \in Sides
  BY <1>1 DEF Resized, Edited, Sides
<1> QED
  BY <1>4, <1>5, <1>6, <1>7 DEF Planned

\* ... that keeps the date and the pairing, and all but the user block if it is
\* an edit; only a sync makes one where there is none.
LEMMA PlannedKeeps ==
    ASSUME TypeOK, NEW t \in Threads, NEW v \in Sides
    PROVE  /\ v.exists => Planned(t, v).exists
           /\ (v.exists /\ v.created # 0) => Planned(t, v).created = v.created
           /\ (v.exists /\ v.pair # NoFp) => Planned(t, v).pair # NoFp
           /\ (~v.exists /\ stage[t] # "sync") => Planned(t, v) = v
           /\ (stage[t] = "sync" /\ SyncWrites(t, v)) => Planned(t, v).exists
           /\ (stage[t] = "sync" /\ ~v.exists /\ ~SyncWrites(t, v)) => Planned(t, v) = v
           /\ (v.exists /\ stage[t] = "update") =>
                 Planned(t, v) = [v EXCEPT !.user = Planned(t, v).user]
<1> USE DEF TypeOK
<1>1. job[t].a \in Fps /\ job[t].b \in Fps /\ job[t].a # NoFp /\ job[t].b # NoFp
  BY SidecarAssumption DEF Jobs
<1>2. CASE stage[t] = "sync"
  BY <1>2 DEF Planned, Synced, Sides, SyncWrites, CreatedAt, Described
<1>3. CASE stage[t] = "refs"
  BY <1>3 DEF Planned, Traced, Sides
<1>4. CASE stage[t] \in {"pairA", "pairB"}
  BY <1>1, <1>4 DEF Planned, Paired, Sides
<1>5. CASE stage[t] = "size"
  BY <1>5 DEF Planned, Resized, Sides
<1>6. CASE stage[t] \in {"update", "delete"}
  BY <1>6 DEF Planned, Edited, Sides
<1> QED
  BY <1>2, <1>3, <1>4, <1>5, <1>6 DEF Stages

\* A sidecar that is not there.
LEMMA NoSideIsSide == NoSide \in Sides /\ ~NoSide.exists
  BY SidecarAssumption DEF NoSide, Sides

-----------------------------------------------------------------------------
(* SideInv is inductive.                                                    *)

\* The files keep their types ...
LEMMA DiskTypesStep ==
    ASSUME TypeOK, [Next]_vars
    PROVE  DiskTypes'
<1> USE NoSideIsSide DEF TypeOK, DiskTypes, vars, disk, history
<1>1. ASSUME NEW t \in Threads, NEW r \in Requests, Start(t, r) PROVE DiskTypes'
  BY <1>1 DEF Start, Go
<1>2. ASSUME NEW t \in Threads, Encode(t) PROVE DiskTypes'
  <2>1. PassFp(t) \in Fps
    BY DEF PassFp, Jobs
  <2> QED
    BY <1>2, <2>1 DEF Encode, Fault
<1>3. ASSUME NEW t \in Threads, EncodeRaises(t) PROVE DiskTypes'
  BY <1>3 DEF EncodeRaises, Go, Fault
<1>4. ASSUME NEW t \in Threads, Enter(t) PROVE DiskTypes'
  BY <1>4 DEF Enter, Go
<1>5. ASSUME NEW t \in Threads, EnterTimeout(t) PROVE DiskTypes'
  BY <1>5 DEF EnterTimeout, Go
<1>6. ASSUME NEW t \in Threads, PlanSection(t) PROVE DiskTypes'
  BY <1>6, TargetType DEF PlanSection, Go, Fault, Loads
<1>7. ASSUME NEW t \in Threads, CarryUser(t) PROVE DiskTypes'
  BY <1>7 DEF CarryUser, Go, Fault, Loads
<1>8. ASSUME NEW t \in Threads, Write(t) PROVE DiskTypes'
  BY <1>8, TargetType DEF Write, Go, Fault
<1>9. ASSUME NEW t \in Threads, UnlinkCore(t) PROVE DiskTypes'
  BY <1>9, TargetType DEF UnlinkCore, Go, Fault, UnlinkFails
<1>10. ASSUME NEW t \in Threads, UnlinkSide(t) PROVE DiskTypes'
  BY <1>10, TargetType DEF UnlinkSide, Go, Fault, UnlinkFails
<1>11. ASSUME NEW t \in Threads, UnlinkThumbs(t) PROVE DiskTypes'
  BY <1>11, TargetType DEF UnlinkThumbs, Go, Fault, UnlinkFails
<1>12. ASSUME NEW t \in Threads, Leave(t) PROVE DiskTypes'
  BY <1>12 DEF Leave, Go
<1>13. ASSUME NEW t \in Threads, Return(t) PROVE DiskTypes'
  BY <1>13 DEF Return, Go
<1>14. ASSUME Rest \/ UNCHANGED vars PROVE DiskTypes'
  BY <1>14 DEF Rest
<1> HIDE DEF DiskTypes
<1> QED
  BY <1>1, <1>2, <1>3, <1>4, <1>5, <1>6, <1>7, <1>8,
     <1>9, <1>10, <1>11, <1>12, <1>13, <1>14 DEF Next, Step

\* ... so do the locks and the requests ...
LEMMA ThreadTypesStep ==
    ASSUME TypeOK, [Next]_vars
    PROVE  ThreadTypes'
<1> USE SidecarAssumption DEF TypeOK, ThreadTypes, SectionPcs, Stages, vars, disk, history
<1>1. ASSUME NEW t \in Threads, NEW r \in Requests, Start(t, r) PROVE ThreadTypes'
  BY <1>1 DEF Start, Go
<1>2. ASSUME NEW t \in Threads, Encode(t) PROVE ThreadTypes'
  BY <1>2 DEF Encode, Go, Fault
<1>3. ASSUME NEW t \in Threads, EncodeRaises(t) PROVE ThreadTypes'
  BY <1>3 DEF EncodeRaises, Go, Fault
<1>4. ASSUME NEW t \in Threads, Enter(t) PROVE ThreadTypes'
  BY <1>4, TargetType DEF Enter, Go
<1>5. ASSUME NEW t \in Threads, EnterTimeout(t) PROVE ThreadTypes'
  BY <1>5 DEF EnterTimeout, Go
<1>6. ASSUME NEW t \in Threads, PlanSection(t) PROVE ThreadTypes'
  BY <1>6 DEF PlanSection, Go, Fault, Loads
<1>7. ASSUME NEW t \in Threads, CarryUser(t) PROVE ThreadTypes'
  BY <1>7 DEF CarryUser, Go, Fault, Loads
<1>8. ASSUME NEW t \in Threads, Write(t) PROVE ThreadTypes'
  BY <1>8 DEF Write, Go, Fault
<1>9. ASSUME NEW t \in Threads, UnlinkCore(t) PROVE ThreadTypes'
  BY <1>9 DEF UnlinkCore, Go, Fault, UnlinkFails
<1>10. ASSUME NEW t \in Threads, UnlinkSide(t) PROVE ThreadTypes'
  BY <1>10 DEF UnlinkSide, Go, Fault, UnlinkFails
<1>11. ASSUME NEW t \in Threads, UnlinkThumbs(t) PROVE ThreadTypes'
  BY <1>11 DEF UnlinkThumbs, Go, Fault, UnlinkFails
<1>12. ASSUME NEW t \in Threads, Leave(t) PROVE ThreadTypes'
  BY <1>12, TargetType, AfterType DEF Leave, Go
<1>13. ASSUME NEW t \in Threads, Return(t) PROVE ThreadTypes'
  <2>1. NoJob \in Jobs
    BY DEF NoJob
  <2> QED
    BY <1>13, <2>1 DEF Return, Go
<1>14. ASSUME Rest \/ UNCHANGED vars PROVE ThreadTypes'
  BY <1>14 DEF Rest
<1> HIDE DEF ThreadTypes
<1> QED
  BY <1>1, <1>2, <1>3, <1>4, <1>5, <1>6, <1>7, <1>8,
     <1>9, <1>10, <1>11, <1>12, <1>13, <1>14 DEF Next, Step

\* ... what is about to be written ...
LEMMA PlanTypesStep ==
    ASSUME TypeOK, [Next]_vars
    PROVE  PlanTypes'
<1> USE NoSideIsSide DEF TypeOK, PlanTypes, vars, disk, history
<1>1. ASSUME NEW t \in Threads, NEW r \in Requests, Start(t, r) PROVE PlanTypes'
  BY <1>1 DEF Start, Go
<1>2. ASSUME NEW t \in Threads, Encode(t) PROVE PlanTypes'
  BY <1>2 DEF Encode, Go, Fault
<1>3. ASSUME NEW t \in Threads, EncodeRaises(t) PROVE PlanTypes'
  BY <1>3 DEF EncodeRaises, Go, Fault
<1>4. ASSUME NEW t \in Threads, Enter(t) PROVE PlanTypes'
  BY <1>4 DEF Enter, Go
<1>5. ASSUME NEW t \in Threads, EnterTimeout(t) PROVE PlanTypes'
  BY <1>5 DEF EnterTimeout, Go
<1>6. ASSUME NEW t \in Threads, PlanSection(t) PROVE PlanTypes'
  <2>1. side[Target(t)] \in Sides
    BY TargetType
  <2> QED
    BY <1>6, <2>1, PlannedIsSide DEF PlanSection
<1>7. ASSUME NEW t \in Threads, CarryUser(t) PROVE PlanTypes'
  <2>1. side[Target(t)] \in Sides
    BY TargetType
  <2>2. PICK v \in {side[Target(t)], NoSide} : plan' = [plan EXCEPT ![t].user = v.user]
    BY <1>7 DEF CarryUser
  <2>3. [plan[t] EXCEPT !.user = v.user] \in Sides
    BY <2>1, <2>2 DEF Sides
  <2> QED
    BY <2>2, <2>3
<1>8. ASSUME NEW t \in Threads, Write(t) PROVE PlanTypes'
  BY <1>8 DEF Write, Go, Fault
<1>9. ASSUME NEW t \in Threads, UnlinkCore(t) PROVE PlanTypes'
  BY <1>9 DEF UnlinkCore, Go, Fault, UnlinkFails
<1>10. ASSUME NEW t \in Threads, UnlinkSide(t) PROVE PlanTypes'
  BY <1>10 DEF UnlinkSide, Go, Fault, UnlinkFails
<1>11. ASSUME NEW t \in Threads, UnlinkThumbs(t) PROVE PlanTypes'
  BY <1>11 DEF UnlinkThumbs, Go, Fault, UnlinkFails
<1>12. ASSUME NEW t \in Threads, Leave(t) PROVE PlanTypes'
  BY <1>12 DEF Leave, Go
<1>13. ASSUME NEW t \in Threads, Return(t) PROVE PlanTypes'
  BY <1>13 DEF Return, Go
<1>14. ASSUME Rest \/ UNCHANGED vars PROVE PlanTypes'
  BY <1>14 DEF Rest
<1> HIDE DEF PlanTypes
<1> QED
  BY <1>1, <1>2, <1>3, <1>4, <1>5, <1>6, <1>7, <1>8,
     <1>9, <1>10, <1>11, <1>12, <1>13, <1>14 DEF Next, Step

\* ... and the history.
LEMMA HistoryTypesStep ==
    ASSUME TypeOK, [Next]_vars
    PROVE  HistoryTypes'
<1> USE SidecarAssumption DEF TypeOK, HistoryTypes, vars, disk, history
<1>1. ASSUME NEW t \in Threads, NEW r \in Requests, Start(t, r) PROVE HistoryTypes'
  BY <1>1 DEF Start, Go
<1>2. ASSUME NEW t \in Threads, Encode(t) PROVE HistoryTypes'
  BY <1>2 DEF Encode, Go, Fault
<1>3. ASSUME NEW t \in Threads, EncodeRaises(t) PROVE HistoryTypes'
  BY <1>3 DEF EncodeRaises, Go, Fault
<1>4. ASSUME NEW t \in Threads, Enter(t) PROVE HistoryTypes'
  BY <1>4 DEF Enter, Go
<1>5. ASSUME NEW t \in Threads, EnterTimeout(t) PROVE HistoryTypes'
  BY <1>5 DEF EnterTimeout, Go
<1>6. ASSUME NEW t \in Threads, PlanSection(t) PROVE HistoryTypes'
  <2>1. misread' = misread \/ misread' = TRUE
    BY <1>6 DEF PlanSection, Loads
  <2>2. faultsLeft' \in Nat
    BY <1>6 DEF PlanSection, Loads, Fault
  <2> QED
    BY <1>6, <2>1, <2>2 DEF PlanSection
<1>7. ASSUME NEW t \in Threads, CarryUser(t) PROVE HistoryTypes'
  <2>1. misread' = misread \/ misread' = TRUE
    BY <1>7 DEF CarryUser, Loads
  <2>2. faultsLeft' \in Nat
    BY <1>7 DEF CarryUser, Loads, Fault
  <2> QED
    BY <1>7, <2>1, <2>2 DEF CarryUser
<1>8. ASSUME NEW t \in Threads, Write(t) PROVE HistoryTypes'
  <2>1. plan[t].user \in Users
    BY DEF Sides
  <2> QED
    BY <1>8, <2>1, TargetType DEF Write, Fault
<1>9. ASSUME NEW t \in Threads, UnlinkCore(t) PROVE HistoryTypes'
  BY <1>9, TargetType DEF UnlinkCore, Go, Fault, UnlinkFails
<1>10. ASSUME NEW t \in Threads, UnlinkSide(t) PROVE HistoryTypes'
  BY <1>10, TargetType DEF UnlinkSide, Go, Fault, UnlinkFails
<1>11. ASSUME NEW t \in Threads, UnlinkThumbs(t) PROVE HistoryTypes'
  BY <1>11, TargetType DEF UnlinkThumbs, Go, Fault, UnlinkFails
<1>12. ASSUME NEW t \in Threads, Leave(t) PROVE HistoryTypes'
  BY <1>12 DEF Leave, Go
<1>13. ASSUME NEW t \in Threads, Return(t) PROVE HistoryTypes'
  BY <1>13 DEF Return, Go
<1>14. ASSUME Rest \/ UNCHANGED vars PROVE HistoryTypes'
  BY <1>14 DEF Rest
<1> HIDE DEF HistoryTypes
<1> QED
  BY <1>1, <1>2, <1>3, <1>4, <1>5, <1>6, <1>7, <1>8,
     <1>9, <1>10, <1>11, <1>12, <1>13, <1>14 DEF Next, Step

\* Every step keeps every variable in its type.
LEMMA TypeStep ==
    ASSUME TypeOK, [Next]_vars
    PROVE  TypeOK'
<1>1. DiskTypes' /\ ThreadTypes' /\ PlanTypes' /\ HistoryTypes'
  BY DiskTypesStep, ThreadTypesStep, PlanTypesStep, HistoryTypesStep
<1> QED
  BY <1>1 DEF TypeOK, DiskTypes, ThreadTypes, PlanTypes, HistoryTypes

\* A lock is taken when it is free and left by its owner.
LEMMA HoldingStep ==
    ASSUME TypeOK, Holding, [Next]_vars
    PROVE  Holding'
<1> USE SidecarAssumption DEF TypeOK, Holding, SectionPcs, vars, disk, history
<1>1. ASSUME NEW t \in Threads, NEW r \in Requests, Start(t, r) PROVE Holding'
  <2>1. \A u \in Threads \ {t} : Others(u)
    BY <1>1, OtherThreads DEF Step
  <2> QED
    BY <1>1, <2>1 DEF Start, Go, Others
<1>2. ASSUME NEW t \in Threads, Encode(t) PROVE Holding'
  <2>1. \A u \in Threads \ {t} : Others(u)
    BY <1>2, OtherThreads DEF Step
  <2>2. Target(t) \in Fps
    BY TargetType
  <2> QED
    BY <1>2, <2>1, <2>2 DEF Encode, Go, Fault, Others
<1>3. ASSUME NEW t \in Threads, EncodeRaises(t) PROVE Holding'
  <2>1. \A u \in Threads \ {t} : Others(u)
    BY <1>3, OtherThreads DEF Step
  <2>2. Target(t)' = Target(t) /\ Target(t) \in Fps
    BY <1>3, OwnTarget, TargetType DEF Section
  <2> QED
    BY <1>3, <2>1, <2>2 DEF EncodeRaises, Go, Fault, Others
<1>4. ASSUME NEW t \in Threads, Enter(t) PROVE Holding'
  <2>1. \A u \in Threads \ {t} : Others(u)
    BY <1>4, OtherThreads DEF Step
  <2>2. Target(t)' = Target(t) /\ Target(t) \in Fps
    BY <1>4, OwnTarget, TargetType DEF Section
  <2> QED
    BY <1>4, <2>1, <2>2 DEF Enter, Go, Others
<1>5. ASSUME NEW t \in Threads, EnterTimeout(t) PROVE Holding'
  <2>1. \A u \in Threads \ {t} : Others(u)
    BY <1>5, OtherThreads DEF Step
  <2>2. Target(t)' = Target(t) /\ Target(t) \in Fps
    BY <1>5, OwnTarget, TargetType DEF Section
  <2> QED
    BY <1>5, <2>1, <2>2 DEF EnterTimeout, Go, Others
<1>6. ASSUME NEW t \in Threads, PlanSection(t) PROVE Holding'
  <2>1. \A u \in Threads \ {t} : Others(u)
    BY <1>6, OtherThreads DEF Step
  <2>2. Target(t)' = Target(t) /\ Target(t) \in Fps
    BY <1>6, OwnTarget, TargetType DEF Section
  <2> QED
    BY <1>6, <2>1, <2>2 DEF PlanSection, Go, Fault, Loads, Others
<1>7. ASSUME NEW t \in Threads, CarryUser(t) PROVE Holding'
  <2>1. \A u \in Threads \ {t} : Others(u)
    BY <1>7, OtherThreads DEF Step
  <2>2. Target(t)' = Target(t) /\ Target(t) \in Fps
    BY <1>7, OwnTarget, TargetType DEF Section
  <2> QED
    BY <1>7, <2>1, <2>2 DEF CarryUser, Go, Fault, Loads, Others
<1>8. ASSUME NEW t \in Threads, Write(t) PROVE Holding'
  <2>1. \A u \in Threads \ {t} : Others(u)
    BY <1>8, OtherThreads DEF Step
  <2>2. Target(t)' = Target(t) /\ Target(t) \in Fps
    BY <1>8, OwnTarget, TargetType DEF Section
  <2> QED
    BY <1>8, <2>1, <2>2 DEF Write, Go, Fault, Others
<1>9. ASSUME NEW t \in Threads, UnlinkCore(t) PROVE Holding'
  <2>1. \A u \in Threads \ {t} : Others(u)
    BY <1>9, OtherThreads DEF Step
  <2>2. Target(t)' = Target(t) /\ Target(t) \in Fps
    BY <1>9, OwnTarget, TargetType DEF Section
  <2> QED
    BY <1>9, <2>1, <2>2 DEF UnlinkCore, Go, Fault, UnlinkFails, Others
<1>10. ASSUME NEW t \in Threads, UnlinkSide(t) PROVE Holding'
  <2>1. \A u \in Threads \ {t} : Others(u)
    BY <1>10, OtherThreads DEF Step
  <2>2. Target(t)' = Target(t) /\ Target(t) \in Fps
    BY <1>10, OwnTarget, TargetType DEF Section
  <2> QED
    BY <1>10, <2>1, <2>2 DEF UnlinkSide, Go, Fault, UnlinkFails, Others
<1>11. ASSUME NEW t \in Threads, UnlinkThumbs(t) PROVE Holding'
  <2>1. \A u \in Threads \ {t} : Others(u)
    BY <1>11, OtherThreads DEF Step
  <2>2. Target(t)' = Target(t) /\ Target(t) \in Fps
    BY <1>11, OwnTarget, TargetType DEF Section
  <2> QED
    BY <1>11, <2>1, <2>2 DEF UnlinkThumbs, Go, Fault, UnlinkFails, Others
<1>12. ASSUME NEW t \in Threads, Leave(t) PROVE Holding'
  <2>1. \A u \in Threads \ {t} : Others(u)
    BY <1>12, OtherThreads DEF Step
  <2>2. Target(t) \in Fps
    BY TargetType
  <2> QED
    BY <1>12, <2>1, <2>2, AfterType DEF Leave, Go, Others
<1>13. ASSUME NEW t \in Threads, Return(t) PROVE Holding'
  <2>1. \A u \in Threads \ {t} : Others(u)
    BY <1>13, OtherThreads DEF Step
  <2> QED
    BY <1>13, <2>1 DEF Return, Go, Others
<1>14. ASSUME Rest \/ UNCHANGED vars PROVE Holding'
  BY <1>14, TargetsStay DEF Rest
<1> HIDE DEF Holding
<1> QED
  BY <1>1, <1>2, <1>3, <1>4, <1>5, <1>6, <1>7, <1>8,
     <1>9, <1>10, <1>11, <1>12, <1>13, <1>14 DEF Next, Step

\* A section goes on as its request is of the kind to.
LEMMA RoutesStep ==
    ASSUME TypeOK, Routes, [Next]_vars
    PROVE  Routes'
<1> USE SidecarAssumption DEF TypeOK, Routes, SectionPcs, vars, disk, history
<1>1. ASSUME NEW t \in Threads, NEW r \in Requests, Start(t, r) PROVE Routes'
  <2>1. \A u \in Threads \ {t} : Others(u)
    BY <1>1, OtherThreads DEF Step
  <2> QED
    BY <1>1, <2>1 DEF Start, Go, Others
<1>2. ASSUME NEW t \in Threads, Encode(t) PROVE Routes'
  <2>1. \A u \in Threads \ {t} : Others(u)
    BY <1>2, OtherThreads DEF Step
  <2>2. Target(t) \in Fps
    BY TargetType
  <2> QED
    BY <1>2, <2>1, <2>2 DEF Encode, Go, Fault, Others
<1>3. ASSUME NEW t \in Threads, EncodeRaises(t) PROVE Routes'
  <2>1. \A u \in Threads \ {t} : Others(u)
    BY <1>3, OtherThreads DEF Step
  <2>2. Target(t)' = Target(t) /\ Target(t) \in Fps
    BY <1>3, OwnTarget, TargetType DEF Section
  <2> QED
    BY <1>3, <2>1, <2>2 DEF EncodeRaises, Go, Fault, Others
<1>4. ASSUME NEW t \in Threads, Enter(t) PROVE Routes'
  <2>1. \A u \in Threads \ {t} : Others(u)
    BY <1>4, OtherThreads DEF Step
  <2>2. Target(t)' = Target(t) /\ Target(t) \in Fps
    BY <1>4, OwnTarget, TargetType DEF Section
  <2> QED
    BY <1>4, <2>1, <2>2 DEF Enter, Go, Others
<1>5. ASSUME NEW t \in Threads, EnterTimeout(t) PROVE Routes'
  <2>1. \A u \in Threads \ {t} : Others(u)
    BY <1>5, OtherThreads DEF Step
  <2>2. Target(t)' = Target(t) /\ Target(t) \in Fps
    BY <1>5, OwnTarget, TargetType DEF Section
  <2> QED
    BY <1>5, <2>1, <2>2 DEF EnterTimeout, Go, Others
<1>6. ASSUME NEW t \in Threads, PlanSection(t) PROVE Routes'
  <2>1. \A u \in Threads \ {t} : Others(u)
    BY <1>6, OtherThreads DEF Step
  <2>2. Target(t)' = Target(t) /\ Target(t) \in Fps
    BY <1>6, OwnTarget, TargetType DEF Section
  <2> QED
    BY <1>6, <2>1, <2>2 DEF PlanSection, Go, Fault, Loads, Others
<1>7. ASSUME NEW t \in Threads, CarryUser(t) PROVE Routes'
  <2>1. \A u \in Threads \ {t} : Others(u)
    BY <1>7, OtherThreads DEF Step
  <2>2. Target(t)' = Target(t) /\ Target(t) \in Fps
    BY <1>7, OwnTarget, TargetType DEF Section
  <2> QED
    BY <1>7, <2>1, <2>2 DEF CarryUser, Go, Fault, Loads, Others
<1>8. ASSUME NEW t \in Threads, Write(t) PROVE Routes'
  <2>1. \A u \in Threads \ {t} : Others(u)
    BY <1>8, OtherThreads DEF Step
  <2>2. Target(t)' = Target(t) /\ Target(t) \in Fps
    BY <1>8, OwnTarget, TargetType DEF Section
  <2> QED
    BY <1>8, <2>1, <2>2 DEF Write, Go, Fault, Others
<1>9. ASSUME NEW t \in Threads, UnlinkCore(t) PROVE Routes'
  <2>1. \A u \in Threads \ {t} : Others(u)
    BY <1>9, OtherThreads DEF Step
  <2>2. Target(t)' = Target(t) /\ Target(t) \in Fps
    BY <1>9, OwnTarget, TargetType DEF Section
  <2> QED
    BY <1>9, <2>1, <2>2 DEF UnlinkCore, Go, Fault, UnlinkFails, Others
<1>10. ASSUME NEW t \in Threads, UnlinkSide(t) PROVE Routes'
  <2>1. \A u \in Threads \ {t} : Others(u)
    BY <1>10, OtherThreads DEF Step
  <2>2. Target(t)' = Target(t) /\ Target(t) \in Fps
    BY <1>10, OwnTarget, TargetType DEF Section
  <2> QED
    BY <1>10, <2>1, <2>2 DEF UnlinkSide, Go, Fault, UnlinkFails, Others
<1>11. ASSUME NEW t \in Threads, UnlinkThumbs(t) PROVE Routes'
  <2>1. \A u \in Threads \ {t} : Others(u)
    BY <1>11, OtherThreads DEF Step
  <2>2. Target(t)' = Target(t) /\ Target(t) \in Fps
    BY <1>11, OwnTarget, TargetType DEF Section
  <2> QED
    BY <1>11, <2>1, <2>2 DEF UnlinkThumbs, Go, Fault, UnlinkFails, Others
<1>12. ASSUME NEW t \in Threads, Leave(t) PROVE Routes'
  <2>1. \A u \in Threads \ {t} : Others(u)
    BY <1>12, OtherThreads DEF Step
  <2>2. Target(t) \in Fps
    BY TargetType
  <2> QED
    BY <1>12, <2>1, <2>2, AfterType DEF Leave, Go, Others
<1>13. ASSUME NEW t \in Threads, Return(t) PROVE Routes'
  <2>1. \A u \in Threads \ {t} : Others(u)
    BY <1>13, OtherThreads DEF Step
  <2> QED
    BY <1>13, <2>1 DEF Return, Go, Others
<1>14. ASSUME Rest \/ UNCHANGED vars PROVE Routes'
  BY <1>14, TargetsStay DEF Rest
<1> HIDE DEF Routes
<1> QED
  BY <1>1, <1>2, <1>3, <1>4, <1>5, <1>6, <1>7, <1>8,
     <1>9, <1>10, <1>11, <1>12, <1>13, <1>14 DEF Next, Step

\* While a thread is in a section, no other one touches the files of its target.
LEMMA LockKeeps ==
    ASSUME TypeOK, Holding, NEW t \in Threads, NEW u \in Threads \ {t},
           pc[u] \in SectionPcs, Step(t) \/ \E r \in Requests : Start(t, r)
    PROVE  /\ core'[Target(u)] = core[Target(u)] /\ side'[Target(u)] = side[Target(u)]
           /\ edited'[Target(u)] = edited[Target(u)]
<1> DEFINE Kept == /\ core'[Target(u)] = core[Target(u)] /\ side'[Target(u)] = side[Target(u)]
                   /\ edited'[Target(u)] = edited[Target(u)]
<1>1. fpLock[Target(u)] = u /\ Target(u) \in Fps /\ u # NoThread /\ Target(t) \in Fps
  BY TargetType, SidecarAssumption DEF Holding
<1>2. CASE \E r \in Requests : Start(t, r)
  BY <1>2 DEF Start, disk, history
<1>3. CASE Encode(t)
  <2>1. PassFp(t) # Target(u)
    BY <1>1, <1>3 DEF Encode
  <2>2. core'[Target(u)] = core[Target(u)]
    BY <1>1, <1>3, <2>1 DEF Encode, TypeOK
  <2> QED
    BY <1>3, <2>2 DEF Encode, history
<1>4. CASE EncodeRaises(t) \/ Enter(t) \/ EnterTimeout(t) \/ PlanSection(t) \/ CarryUser(t)
  BY <1>4 DEF EncodeRaises, Enter, EnterTimeout, PlanSection, CarryUser, disk, history
<1>5. CASE Write(t) \/ UnlinkCore(t) \/ UnlinkSide(t) \/ UnlinkThumbs(t)
  <2>1. pc[t] \in SectionPcs
    BY <1>5 DEF Write, UnlinkCore, UnlinkSide, UnlinkThumbs, SectionPcs
  <2>2. Target(t) # Target(u)
    BY <1>1, <2>1 DEF Holding
  <2>3. CASE Write(t)
    BY <1>1, <2>2, <2>3 DEF Write, TypeOK
  <2>4. CASE UnlinkCore(t)
    BY <1>1, <2>2, <2>4 DEF UnlinkCore, UnlinkFails, TypeOK
  <2>5. CASE UnlinkSide(t)
    BY <1>1, <2>2, <2>5 DEF UnlinkSide, UnlinkFails, TypeOK
  <2>6. CASE UnlinkThumbs(t)
    BY <2>6 DEF UnlinkThumbs, UnlinkFails
  <2> QED
    BY <1>5, <2>3, <2>4, <2>5, <2>6
<1>6. CASE Leave(t) \/ Return(t)
  BY <1>6 DEF Leave, Return, disk, history
<1> QED
  BY <1>2, <1>3, <1>4, <1>5, <1>6 DEF Step

\* A failing read is remembered.
LEMMA MisreadStays ==
    ASSUME [Next]_vars, misread
    PROVE  misread'
<1>1. ASSUME NEW t \in Threads, Step(t) PROVE misread'
  BY <1>1 DEF Step, Encode, EncodeRaises, Enter, EnterTimeout, PlanSection, CarryUser, Loads,
         Write, UnlinkCore, UnlinkSide, UnlinkThumbs, Leave, Return, history
<1>2. ASSUME NEW t \in Threads, NEW r \in Requests, Start(t, r) PROVE misread'
  BY <1>2 DEF Start, history
<1>3. CASE Rest \/ UNCHANGED vars
  BY <1>3 DEF Rest, vars, history
<1> QED
  BY <1>1, <1>2, <1>3 DEF Next

\* What a section plans keeps the sidecar it has read.
LEMMA PlanSectionPlans ==
    ASSUME TypeOK, Routes, NEW t \in Threads, PlanSection(t)
    PROVE  PlanOf(t)'
<1>1. Target(t)' = Target(t) /\ Target(t) \in Fps
  BY OwnTarget, TargetType DEF Section
<1>2. UNCHANGED <<core, side, edited, stage>>
  BY DEF PlanSection
<1> DEFINE f == Target(t)
<1>3. CASE core[f] = 0 /\ stage[t] # "update"
  BY <1>3, <1>1 DEF PlanSection, Go, PlanOf, TypeOK
<1>4. CASE ~(core[f] = 0 /\ stage[t] # "update")
  <2>1. PICK v \in {side[f], NoSide} :
          /\ Loads(f, v)
          /\ plan' = [plan EXCEPT ![t] = Planned(t, v)]
          /\ Go(t, IF Planned(t, v) = v /\ ~(stage[t] = "sync" /\ SyncWrites(t, v)) THEN "leave"
                   ELSE IF stage[t] = "update" THEN "write" ELSE "user")
    BY <1>4 DEF PlanSection
  <2>2. v \in Sides
    BY <1>1, NoSideIsSide DEF TypeOK
  <2>3. /\ plan'[t] = Planned(t, v)
        /\ pc'[t] \in {"user", "write"} =>
              ~(Planned(t, v) = v /\ ~(stage[t] = "sync" /\ SyncWrites(t, v)))
        /\ pc'[t] = "write" => stage[t] = "update"
        /\ stage[t] = "update" => pc'[t] # "user"
    BY <2>1 DEF Go, TypeOK
  <2>4. ~misread' => v = side[f]
    BY <2>1 DEF Loads
  <2>5. pc'[t] \in {"user", "write"} => Planned(t, v).exists
    <3>1. CASE v.exists
      BY <3>1, <2>2, PlannedKeeps
    <3>2. CASE ~v.exists /\ stage[t] # "sync"
      BY <3>2, <2>2, <2>3, PlannedKeeps
    <3>3. CASE ~v.exists /\ stage[t] = "sync" /\ SyncWrites(t, v)
      BY <3>3, <2>2, PlannedKeeps
    <3>4. CASE ~v.exists /\ stage[t] = "sync" /\ ~SyncWrites(t, v)
      <4>1. pc'[t] \in {"user", "write"} => Planned(t, v) # v
        BY <2>3, <3>4
      <4> QED
        BY <2>2, <3>4, <4>1, PlannedKeeps
    <3> QED
      BY <3>1, <3>2, <3>3, <3>4
  <2>6. pc'[t] \in {"user", "write"} => core[f] # 0 \/ side[f].exists
    <3>1. CASE stage[t] = "update"
      <4>1. pc'[t] \in {"user", "write"} => v.exists
        BY <2>2, <2>3, <3>1, PlannedKeeps
      <4> QED
        BY <4>1, <2>1, NoSideIsSide
    <3> QED
      BY <3>1, <1>4
  <2>7. (~misread' /\ side[f].exists) =>
           /\ side[f].created # 0 => Planned(t, v).created = side[f].created
           /\ side[f].pair # NoFp => Planned(t, v).pair # NoFp
    BY <2>2, <2>4, PlannedKeeps
  <2>8. (~misread' /\ pc'[t] = "write") =>
           Planned(t, v) = [side[f] EXCEPT !.user = Planned(t, v).user]
    <3>1. pc'[t] = "write" => stage[t] = "update" /\ v.exists
      BY <2>2, <2>3, PlannedKeeps
    <3> QED
      BY <3>1, <2>2, <2>4, PlannedKeeps
  <2> QED
    BY <1>1, <1>2, <2>3, <2>5, <2>6, <2>7, <2>8 DEF PlanOf
<1> QED
  BY <1>3, <1>4

\* The user block that is carried over is the one on disk.
LEMMA CarryUserPlans ==
    ASSUME TypeOK, Routes, Plans, Edits, NEW t \in Threads, CarryUser(t)
    PROVE  PlanOf(t)'
<1>1. Target(t)' = Target(t) /\ Target(t) \in Fps
  BY OwnTarget, TargetType DEF Section
<1>2. UNCHANGED <<core, side, edited, stage>>
  BY DEF CarryUser, disk
<1>3. PICK v \in {side[Target(t)], NoSide} :
         Loads(Target(t), v) /\ plan' = [plan EXCEPT ![t].user = v.user]
  BY DEF CarryUser
<1>4. /\ plan[t] \in Sides /\ plan'[t] = [plan[t] EXCEPT !.user = v.user]
      /\ pc[t] = "user" /\ pc'[t] = "write"
  BY <1>3 DEF CarryUser, Go, TypeOK
<1>5. /\ plan'[t].exists = plan[t].exists /\ plan'[t].created = plan[t].created
      /\ plan'[t].pair = plan[t].pair /\ plan'[t].user = v.user
  BY <1>4 DEF Sides
<1>6. ~misread' => ~misread /\ v = side[Target(t)]
  BY <1>3 DEF Loads
<1>7. stage[t] # "update"
  BY <1>4 DEF Routes
<1>8. ~misread' => v.user = edited[Target(t)]
  BY <1>1, <1>6 DEF Edits
<1>9. plan'[t].exists /\ (core[Target(t)] # 0 \/ side[Target(t)].exists)
  BY <1>4, <1>5 DEF Plans, PlanOf
<1>10. (~misread' /\ side[Target(t)].exists) =>
          /\ side[Target(t)].created # 0 => plan'[t].created = side[Target(t)].created
          /\ side[Target(t)].pair # NoFp => plan'[t].pair # NoFp
  BY <1>4, <1>5, <1>6 DEF Plans, PlanOf
<1>11. ~misread' => plan'[t].user = edited[Target(t)]
  BY <1>5, <1>8
<1>12. pc'[t] = "write" /\ stage'[t] # "update"
  BY <1>2, <1>4, <1>7
<1> QED
  BY <1>1, <1>2, <1>9, <1>10, <1>11, <1>12 DEF PlanOf

\* The lock keeps what was read until it is written.
LEMMA PlansStep ==
    ASSUME TypeOK, Holding, Routes, Plans, Edits, [Next]_vars
    PROVE  Plans'
<1>1. ASSUME NEW t \in Threads, Step(t) \/ \E r \in Requests : Start(t, r)
      PROVE  Plans'
  <2>1. ASSUME NEW u \in Threads \ {t} PROVE PlanOf(u)'
    <3>1. Others(u)
      BY <1>1, OtherThreads
    <3>2. ~misread' => ~misread
      BY MisreadStays
    <3>3. CASE pc[u] \in SectionPcs
      BY <1>1, <3>1, <3>2, <3>3, LockKeeps DEF Others, PlanOf, Plans
    <3>4. CASE pc[u] \notin SectionPcs
      BY <3>1, <3>4 DEF Others, PlanOf, SectionPcs
    <3> QED
      BY <3>3, <3>4
  <2>2. PlanOf(t)'
    <3>1. CASE PlanSection(t)
      BY <3>1, PlanSectionPlans
    <3>2. CASE CarryUser(t)
      BY <3>2, CarryUserPlans
    <3>3. CASE ~PlanSection(t) /\ ~CarryUser(t)
      <4>1. pc'[t] \notin {"user", "write"}
        BY <1>1, <3>3, AfterType
        DEF Step, Start, Encode, EncodeRaises, Enter, EnterTimeout, Write, UnlinkCore,
            UnlinkSide, UnlinkThumbs, UnlinkFails, Leave, Return, Go, TypeOK
      <4> QED
        BY <4>1 DEF PlanOf
    <3> QED
      BY <3>1, <3>2, <3>3
  <2> QED
    BY <2>1, <2>2 DEF Plans
<1>2. CASE Rest \/ UNCHANGED vars
  BY <1>2, TargetsStay DEF Rest, Plans, PlanOf, vars, disk, history
<1> QED
  BY <1>1, <1>2 DEF Next

\* Only an edit changes a user block, and a Delete forgets it.
LEMMA EditsStep ==
    ASSUME TypeOK, Holding, Routes, Plans, Edits, [Next]_vars
    PROVE  Edits'
<1> USE SidecarAssumption DEF TypeOK, Routes, Plans, PlanOf, Edits, NoSide, SectionPcs, vars, disk, history
<1>1. ASSUME NEW t \in Threads, NEW r \in Requests, Start(t, r) PROVE Edits'
  <2>1. \A u \in Threads \ {t} : Others(u)
    BY <1>1, OtherThreads DEF Step
  <2> QED
    BY <1>1, <2>1 DEF Start, Go, Others
<1>2. ASSUME NEW t \in Threads, Encode(t) PROVE Edits'
  <2>1. \A u \in Threads \ {t} : Others(u)
    BY <1>2, OtherThreads DEF Step
  <2>2. Target(t) \in Fps
    BY TargetType
  <2> QED
    BY <1>2, <2>1, <2>2 DEF Encode, Go, Fault, Others
<1>3. ASSUME NEW t \in Threads, EncodeRaises(t) PROVE Edits'
  <2>1. \A u \in Threads \ {t} : Others(u)
    BY <1>3, OtherThreads DEF Step
  <2>2. Target(t)' = Target(t) /\ Target(t) \in Fps
    BY <1>3, OwnTarget, TargetType DEF Section
  <2> QED
    BY <1>3, <2>1, <2>2 DEF EncodeRaises, Go, Fault, Others
<1>4. ASSUME NEW t \in Threads, Enter(t) PROVE Edits'
  <2>1. \A u \in Threads \ {t} : Others(u)
    BY <1>4, OtherThreads DEF Step
  <2>2. Target(t)' = Target(t) /\ Target(t) \in Fps
    BY <1>4, OwnTarget, TargetType DEF Section
  <2> QED
    BY <1>4, <2>1, <2>2 DEF Enter, Go, Others
<1>5. ASSUME NEW t \in Threads, EnterTimeout(t) PROVE Edits'
  <2>1. \A u \in Threads \ {t} : Others(u)
    BY <1>5, OtherThreads DEF Step
  <2>2. Target(t)' = Target(t) /\ Target(t) \in Fps
    BY <1>5, OwnTarget, TargetType DEF Section
  <2> QED
    BY <1>5, <2>1, <2>2 DEF EnterTimeout, Go, Others
<1>6. ASSUME NEW t \in Threads, PlanSection(t) PROVE Edits'
  <2>1. \A u \in Threads \ {t} : Others(u)
    BY <1>6, OtherThreads DEF Step
  <2>2. Target(t)' = Target(t) /\ Target(t) \in Fps
    BY <1>6, OwnTarget, TargetType DEF Section
  <2> QED
    BY <1>6, <2>1, <2>2 DEF PlanSection, Go, Fault, Loads, Others
<1>7. ASSUME NEW t \in Threads, CarryUser(t) PROVE Edits'
  <2>1. \A u \in Threads \ {t} : Others(u)
    BY <1>7, OtherThreads DEF Step
  <2>2. Target(t)' = Target(t) /\ Target(t) \in Fps
    BY <1>7, OwnTarget, TargetType DEF Section
  <2> QED
    BY <1>7, <2>1, <2>2 DEF CarryUser, Go, Fault, Loads, Others
<1>8. ASSUME NEW t \in Threads, Write(t) PROVE Edits'
  <2>1. \A u \in Threads \ {t} : Others(u)
    BY <1>8, OtherThreads DEF Step
  <2>2. Target(t)' = Target(t) /\ Target(t) \in Fps
    BY <1>8, OwnTarget, TargetType DEF Section
  <2> QED
    BY <1>8, <2>1, <2>2 DEF Write, Go, Fault, Others
<1>9. ASSUME NEW t \in Threads, UnlinkCore(t) PROVE Edits'
  <2>1. \A u \in Threads \ {t} : Others(u)
    BY <1>9, OtherThreads DEF Step
  <2>2. Target(t)' = Target(t) /\ Target(t) \in Fps
    BY <1>9, OwnTarget, TargetType DEF Section
  <2> QED
    BY <1>9, <2>1, <2>2 DEF UnlinkCore, Go, Fault, UnlinkFails, Others
<1>10. ASSUME NEW t \in Threads, UnlinkSide(t) PROVE Edits'
  <2>1. \A u \in Threads \ {t} : Others(u)
    BY <1>10, OtherThreads DEF Step
  <2>2. Target(t)' = Target(t) /\ Target(t) \in Fps
    BY <1>10, OwnTarget, TargetType DEF Section
  <2> QED
    BY <1>10, <2>1, <2>2 DEF UnlinkSide, Go, Fault, UnlinkFails, Others
<1>11. ASSUME NEW t \in Threads, UnlinkThumbs(t) PROVE Edits'
  <2>1. \A u \in Threads \ {t} : Others(u)
    BY <1>11, OtherThreads DEF Step
  <2>2. Target(t)' = Target(t) /\ Target(t) \in Fps
    BY <1>11, OwnTarget, TargetType DEF Section
  <2> QED
    BY <1>11, <2>1, <2>2 DEF UnlinkThumbs, Go, Fault, UnlinkFails, Others
<1>12. ASSUME NEW t \in Threads, Leave(t) PROVE Edits'
  <2>1. \A u \in Threads \ {t} : Others(u)
    BY <1>12, OtherThreads DEF Step
  <2>2. Target(t) \in Fps
    BY TargetType
  <2> QED
    BY <1>12, <2>1, <2>2, AfterType DEF Leave, Go, Others
<1>13. ASSUME NEW t \in Threads, Return(t) PROVE Edits'
  <2>1. \A u \in Threads \ {t} : Others(u)
    BY <1>13, OtherThreads DEF Step
  <2> QED
    BY <1>13, <2>1 DEF Return, Go, Others
<1>14. ASSUME Rest \/ UNCHANGED vars PROVE Edits'
  BY <1>14, TargetsStay DEF Rest
<1> HIDE DEF Edits
<1> QED
  BY <1>1, <1>2, <1>3, <1>4, <1>5, <1>6, <1>7, <1>8,
     <1>9, <1>10, <1>11, <1>12, <1>13, <1>14 DEF Next, Step

\* No sidecar comes back while a Delete holds the lock.
LEMMA GoneStep ==
    ASSUME TypeOK, Holding, Routes, Gone, [Next]_vars
    PROVE  Gone'
<1> USE SidecarAssumption DEF TypeOK, Holding, Gone, SectionPcs, vars, disk, history
<1>1. ASSUME NEW t \in Threads, NEW r \in Requests, Start(t, r) PROVE Gone'
  <2>1. \A u \in Threads \ {t} : Others(u)
    BY <1>1, OtherThreads DEF Step
  <2> QED
    BY <1>1, <2>1 DEF Start, Go, Others
<1>2. ASSUME NEW t \in Threads, Encode(t) PROVE Gone'
  <2>1. \A u \in Threads \ {t} : Others(u)
    BY <1>2, OtherThreads DEF Step
  <2>2. Target(t) \in Fps
    BY TargetType
  <2> QED
    BY <1>2, <2>1, <2>2 DEF Encode, Go, Fault, Others
<1>3. ASSUME NEW t \in Threads, EncodeRaises(t) PROVE Gone'
  <2>1. \A u \in Threads \ {t} : Others(u)
    BY <1>3, OtherThreads DEF Step
  <2>2. Target(t)' = Target(t) /\ Target(t) \in Fps
    BY <1>3, OwnTarget, TargetType DEF Section
  <2> QED
    BY <1>3, <2>1, <2>2 DEF EncodeRaises, Go, Fault, Others
<1>4. ASSUME NEW t \in Threads, Enter(t) PROVE Gone'
  <2>1. \A u \in Threads \ {t} : Others(u)
    BY <1>4, OtherThreads DEF Step
  <2>2. Target(t)' = Target(t) /\ Target(t) \in Fps
    BY <1>4, OwnTarget, TargetType DEF Section
  <2> QED
    BY <1>4, <2>1, <2>2 DEF Enter, Go, Others
<1>5. ASSUME NEW t \in Threads, EnterTimeout(t) PROVE Gone'
  <2>1. \A u \in Threads \ {t} : Others(u)
    BY <1>5, OtherThreads DEF Step
  <2>2. Target(t)' = Target(t) /\ Target(t) \in Fps
    BY <1>5, OwnTarget, TargetType DEF Section
  <2> QED
    BY <1>5, <2>1, <2>2 DEF EnterTimeout, Go, Others
<1>6. ASSUME NEW t \in Threads, PlanSection(t) PROVE Gone'
  <2>1. \A u \in Threads \ {t} : Others(u)
    BY <1>6, OtherThreads DEF Step
  <2>2. Target(t)' = Target(t) /\ Target(t) \in Fps
    BY <1>6, OwnTarget, TargetType DEF Section
  <2> QED
    BY <1>6, <2>1, <2>2 DEF PlanSection, Go, Fault, Loads, Others
<1>7. ASSUME NEW t \in Threads, CarryUser(t) PROVE Gone'
  <2>1. \A u \in Threads \ {t} : Others(u)
    BY <1>7, OtherThreads DEF Step
  <2>2. Target(t)' = Target(t) /\ Target(t) \in Fps
    BY <1>7, OwnTarget, TargetType DEF Section
  <2> QED
    BY <1>7, <2>1, <2>2 DEF CarryUser, Go, Fault, Loads, Others
<1>8. ASSUME NEW t \in Threads, Write(t) PROVE Gone'
  <2>1. \A u \in Threads \ {t} : Others(u)
    BY <1>8, OtherThreads DEF Step
  <2>2. pc[t] = "write" /\ pc'[t] # "unlinkThumbs" /\ Target(t) \in Fps
    BY <1>8, TargetType DEF Write, Go, Fault
  <2>3. \A f \in Fps \ {Target(t)} : side'[f] = side[f]
    BY <1>8, <2>2 DEF Write
  <2>4. \A u \in Threads \ {t} : pc[u] = "unlinkThumbs" => Target(u) # Target(t)
    BY <2>2
  <2> QED
    BY <2>1, <2>2, <2>3, <2>4, TargetType DEF Others
<1>9. ASSUME NEW t \in Threads, UnlinkCore(t) PROVE Gone'
  <2>1. \A u \in Threads \ {t} : Others(u)
    BY <1>9, OtherThreads DEF Step
  <2>2. Target(t)' = Target(t) /\ Target(t) \in Fps
    BY <1>9, OwnTarget, TargetType DEF Section
  <2> QED
    BY <1>9, <2>1, <2>2 DEF UnlinkCore, Go, Fault, UnlinkFails, Others
<1>10. ASSUME NEW t \in Threads, UnlinkSide(t) PROVE Gone'
  <2>1. \A u \in Threads \ {t} : Others(u)
    BY <1>10, OtherThreads DEF Step
  <2>2. Target(t)' = Target(t) /\ Target(t) \in Fps
    BY <1>10, OwnTarget, TargetType DEF Section
  <2>3. CASE UnlinkFails(t)
    BY <1>10, <2>1, <2>2, <2>3, TargetType DEF UnlinkSide, UnlinkFails, Go, Others
  <2>4. CASE side' = [side EXCEPT ![Target(t)] = NoSide]
    BY <2>1, <2>2, <2>4, TargetType, NoSideIsSide DEF Others
  <2> QED
    BY <1>10, <2>3, <2>4 DEF UnlinkSide
<1>11. ASSUME NEW t \in Threads, UnlinkThumbs(t) PROVE Gone'
  <2>1. \A u \in Threads \ {t} : Others(u)
    BY <1>11, OtherThreads DEF Step
  <2>2. Target(t)' = Target(t) /\ Target(t) \in Fps
    BY <1>11, OwnTarget, TargetType DEF Section
  <2> QED
    BY <1>11, <2>1, <2>2 DEF UnlinkThumbs, Go, Fault, UnlinkFails, Others
<1>12. ASSUME NEW t \in Threads, Leave(t) PROVE Gone'
  <2>1. \A u \in Threads \ {t} : Others(u)
    BY <1>12, OtherThreads DEF Step
  <2>2. Target(t) \in Fps
    BY TargetType
  <2> QED
    BY <1>12, <2>1, <2>2, AfterType DEF Leave, Go, Others
<1>13. ASSUME NEW t \in Threads, Return(t) PROVE Gone'
  <2>1. \A u \in Threads \ {t} : Others(u)
    BY <1>13, OtherThreads DEF Step
  <2> QED
    BY <1>13, <2>1 DEF Return, Go, Others
<1>14. ASSUME Rest \/ UNCHANGED vars PROVE Gone'
  BY <1>14, TargetsStay DEF Rest
<1> HIDE DEF Gone
<1> QED
  BY <1>1, <1>2, <1>3, <1>4, <1>5, <1>6, <1>7, <1>8,
     <1>9, <1>10, <1>11, <1>12, <1>13, <1>14 DEF Next, Step

\* Nothing is written for an entry that is gone.
LEMMA NoPhantomStep ==
    ASSUME TypeOK, Holding, Routes, Plans, Gone, NoPhantom, [Next]_vars
    PROVE  NoPhantom'
<1> USE SidecarAssumption DEF TypeOK, Holding, Routes, Plans, PlanOf, Gone, NoPhantom, SectionPcs, vars, disk, history
<1>1. ASSUME NEW t \in Threads, NEW r \in Requests, Start(t, r) PROVE NoPhantom'
  <2>1. \A u \in Threads \ {t} : Others(u)
    BY <1>1, OtherThreads DEF Step
  <2> QED
    BY <1>1, <2>1 DEF Start, Go, Others
<1>2. ASSUME NEW t \in Threads, Encode(t) PROVE NoPhantom'
  <2>1. \A u \in Threads \ {t} : Others(u)
    BY <1>2, OtherThreads DEF Step
  <2>2. Target(t) \in Fps
    BY TargetType
  <2> QED
    BY <1>2, <2>1, <2>2 DEF Encode, Go, Fault, Others
<1>3. ASSUME NEW t \in Threads, EncodeRaises(t) PROVE NoPhantom'
  <2>1. \A u \in Threads \ {t} : Others(u)
    BY <1>3, OtherThreads DEF Step
  <2>2. Target(t)' = Target(t) /\ Target(t) \in Fps
    BY <1>3, OwnTarget, TargetType DEF Section
  <2> QED
    BY <1>3, <2>1, <2>2 DEF EncodeRaises, Go, Fault, Others
<1>4. ASSUME NEW t \in Threads, Enter(t) PROVE NoPhantom'
  <2>1. \A u \in Threads \ {t} : Others(u)
    BY <1>4, OtherThreads DEF Step
  <2>2. Target(t)' = Target(t) /\ Target(t) \in Fps
    BY <1>4, OwnTarget, TargetType DEF Section
  <2> QED
    BY <1>4, <2>1, <2>2 DEF Enter, Go, Others
<1>5. ASSUME NEW t \in Threads, EnterTimeout(t) PROVE NoPhantom'
  <2>1. \A u \in Threads \ {t} : Others(u)
    BY <1>5, OtherThreads DEF Step
  <2>2. Target(t)' = Target(t) /\ Target(t) \in Fps
    BY <1>5, OwnTarget, TargetType DEF Section
  <2> QED
    BY <1>5, <2>1, <2>2 DEF EnterTimeout, Go, Others
<1>6. ASSUME NEW t \in Threads, PlanSection(t) PROVE NoPhantom'
  <2>1. \A u \in Threads \ {t} : Others(u)
    BY <1>6, OtherThreads DEF Step
  <2>2. Target(t)' = Target(t) /\ Target(t) \in Fps
    BY <1>6, OwnTarget, TargetType DEF Section
  <2> QED
    BY <1>6, <2>1, <2>2 DEF PlanSection, Go, Fault, Loads, Others
<1>7. ASSUME NEW t \in Threads, CarryUser(t) PROVE NoPhantom'
  <2>1. \A u \in Threads \ {t} : Others(u)
    BY <1>7, OtherThreads DEF Step
  <2>2. Target(t)' = Target(t) /\ Target(t) \in Fps
    BY <1>7, OwnTarget, TargetType DEF Section
  <2> QED
    BY <1>7, <2>1, <2>2 DEF CarryUser, Go, Fault, Loads, Others
<1>8. ASSUME NEW t \in Threads, Write(t) PROVE NoPhantom'
  <2>1. \A u \in Threads \ {t} : Others(u)
    BY <1>8, OtherThreads DEF Step
  <2>2. Target(t)' = Target(t) /\ Target(t) \in Fps
    BY <1>8, OwnTarget, TargetType DEF Section
  <2>3. fpLock[Target(t)] = t /\ (core[Target(t)] # 0 \/ side[Target(t)].exists)
    BY <1>8 DEF Write
  <2>4. \A u \in Threads : (Target(u) = Target(t) /\ pc[u] \in {"unlinkSide", "unlinkThumbs"}) => FALSE
    BY <1>8, <2>3 DEF Write
  <2>5. Target(t) \notin halfDeleted => core[Target(t)] # 0
    BY <2>2, <2>3, <2>4
  <2>6. /\ UNCHANGED <<core, thumbs, halfDeleted>>
        /\ \A f \in Fps \ {Target(t)} : side'[f] = side[f]
        /\ pc[t] = "write" /\ pc'[t] \in {"leave", "leaveFailed"}
    BY <1>8, <2>2 DEF Write, Go
  <2> QED
    BY <2>1, <2>2, <2>5, <2>6 DEF Others
<1>9. ASSUME NEW t \in Threads, UnlinkCore(t) PROVE NoPhantom'
  <2>1. \A u \in Threads \ {t} : Others(u)
    BY <1>9, OtherThreads DEF Step
  <2>2. Target(t)' = Target(t) /\ Target(t) \in Fps
    BY <1>9, OwnTarget, TargetType DEF Section
  <2> QED
    BY <1>9, <2>1, <2>2 DEF UnlinkCore, Go, Fault, UnlinkFails, Others
<1>10. ASSUME NEW t \in Threads, UnlinkSide(t) PROVE NoPhantom'
  <2>1. \A u \in Threads \ {t} : Others(u)
    BY <1>10, OtherThreads DEF Step
  <2>2. Target(t)' = Target(t) /\ Target(t) \in Fps
    BY <1>10, OwnTarget, TargetType DEF Section
  <2>3. CASE UnlinkFails(t)
    BY <1>10, <2>1, <2>2, <2>3 DEF UnlinkSide, UnlinkFails, Go, Others
  <2>4. CASE side' = [side EXCEPT ![Target(t)] = NoSide] /\ Go(t, "unlinkThumbs")
    <3>1. \A f \in Fps : side'[f].exists => side[f].exists
      BY <2>2, <2>4, NoSideIsSide
    <3>2. UNCHANGED <<core, thumbs, halfDeleted>>
      BY <1>10, <2>4 DEF UnlinkSide, UnlinkFails, Go
    <3>3. pc'[t] = "unlinkThumbs"
      BY <2>4 DEF Go
    <3> QED
      BY <2>1, <2>2, <3>1, <3>2, <3>3 DEF Others
  <2> QED
    BY <1>10, <2>3, <2>4 DEF UnlinkSide
<1>11. ASSUME NEW t \in Threads, UnlinkThumbs(t) PROVE NoPhantom'
  <2>1. \A u \in Threads \ {t} : Others(u)
    BY <1>11, OtherThreads DEF Step
  <2>2. Target(t)' = Target(t) /\ Target(t) \in Fps
    BY <1>11, OwnTarget, TargetType DEF Section
  <2> QED
    BY <1>11, <2>1, <2>2 DEF UnlinkThumbs, Go, Fault, UnlinkFails, Others
<1>12. ASSUME NEW t \in Threads, Leave(t) PROVE NoPhantom'
  <2>1. \A u \in Threads \ {t} : Others(u)
    BY <1>12, OtherThreads DEF Step
  <2>2. Target(t) \in Fps
    BY TargetType
  <2> QED
    BY <1>12, <2>1, <2>2, AfterType DEF Leave, Go, Others
<1>13. ASSUME NEW t \in Threads, Return(t) PROVE NoPhantom'
  <2>1. \A u \in Threads \ {t} : Others(u)
    BY <1>13, OtherThreads DEF Step
  <2> QED
    BY <1>13, <2>1 DEF Return, Go, Others
<1>14. ASSUME Rest \/ UNCHANGED vars PROVE NoPhantom'
  BY <1>14, TargetsStay DEF Rest
<1> HIDE DEF NoPhantom
<1> QED
  BY <1>1, <1>2, <1>3, <1>4, <1>5, <1>6, <1>7, <1>8,
     <1>9, <1>10, <1>11, <1>12, <1>13, <1>14 DEF Next, Step

-----------------------------------------------------------------------------
(* Theorems.                                                               *)

\* Whatever sidecars the directory held before, the first state is in SideInv.
LEMMA SideInvInit == Init => SideInv
<1> SUFFICES ASSUME Init PROVE SideInv
  OBVIOUS
<1> USE SidecarAssumption, NoSideIsSide DEF Init
<1>1. NoJob \in Jobs
  BY DEF NoJob
<1>2. \A b \in BOOLEAN : [NoSide EXCEPT !.exists = b] \in Sides
                         /\ [NoSide EXCEPT !.exists = b].user = DefaultUser
  BY DEF NoSide, Sides
<1>3. /\ side \in [Fps -> Sides] /\ core \in [Fps -> Nat]
      /\ \A f \in Fps : side[f].user = DefaultUser /\ (core[f] = 0 => ~side[f].exists)
  <2>1. PICK legacy \in SUBSET Fps, described \in SUBSET Fps :
           /\ described \subseteq legacy
           /\ core = [f \in Fps |-> IF f \in legacy THEN 1 ELSE 0]
           /\ side = [f \in Fps |-> [NoSide EXCEPT !.exists = f \in described]]
    OBVIOUS
  <2>2. side = [f \in Fps |-> [NoSide EXCEPT !.exists = f \in described]]
    BY <2>1
  <2>3. \A f \in Fps : side[f].exists = (f \in described)
    BY <2>2 DEF NoSide
  <2>4. side \in [Fps -> Sides] /\ \A f \in Fps : side[f].user = DefaultUser
    <3>1. \A f \in Fps : (f \in described) \in BOOLEAN
      OBVIOUS
    <3> QED
      BY <1>2, <2>2, <3>1
  <2>5. core \in [Fps -> Nat] /\ \A f \in Fps : core[f] = 0 => f \notin described
    BY <2>1
  <2> QED
    BY <2>3, <2>4, <2>5
<1>4. TypeOK
  BY <1>1, <1>3 DEF TypeOK, Stages
<1>5. Holding /\ Routes /\ Plans /\ Gone
  BY DEF Holding, Routes, Plans, PlanOf, Gone, SectionPcs
<1>6. Edits /\ NoPhantom
  BY <1>3 DEF Edits, NoPhantom
<1> QED
  BY <1>4, <1>5, <1>6 DEF SideInv

\* No step leaves it.
LEMMA SideInvStep == SideInv /\ [Next]_vars => SideInv'
<1> SUFFICES ASSUME SideInv, [Next]_vars PROVE SideInv'
  OBVIOUS
<1> QED
  BY TypeStep, HoldingStep, RoutesStep, PlansStep, EditsStep, GoneStep, NoPhantomStep
  DEF SideInv

\* The inductive invariant.
THEOREM Invariance == Spec => []SideInv
  BY SideInvInit, SideInvStep, PTL DEF Spec

\* Every variable stays in its type.
THEOREM TypeCorrect == Spec => []TypeOK
<1>1. SideInv => TypeOK
  BY DEF SideInv
<1> QED
  BY <1>1, Invariance, PTL

\* No system write and no racing edit loses the user's last accepted edit.
THEOREM EditsAreKept == Spec => []EditsSurvive
<1>1. SideInv => EditsSurvive
  BY DEF SideInv, Edits, EditsSurvive
<1> QED
  BY <1>1, Invariance, PTL

\* No metadata write brings back a sidecar or thumbnail of a deleted entry.
THEOREM DeletedStaysDeleted == Spec => []NoPhantom
<1>1. SideInv => NoPhantom
  BY DEF SideInv
<1> QED
  BY <1>1, Invariance, PTL

\* A sidecar that lives on is changed only by the thread that writes it, and
\* into what that thread has planned.
LEMMA WritesAreWhole ==
    ASSUME SideInv, [Next]_vars, NEW f \in Fps,
           side[f].exists, side'[f].exists, side'[f] # side[f]
    PROVE  /\ misread' = misread
           /\ \E t \in Threads : /\ pc[t] = "write" /\ Target(t) = f
                                 /\ side'[f] = plan[t] /\ PlanOf(t)
<1>1. ASSUME NEW t \in Threads, \E r \in Requests : Start(t, r) PROVE FALSE
  BY <1>1 DEF Start, disk
<1>2. ASSUME Rest \/ UNCHANGED vars PROVE FALSE
  BY <1>2 DEF Rest, vars, disk
<1>3. PICK t \in Threads : Step(t)
  BY <1>1, <1>2 DEF Next
<1>4. CASE Write(t)
  <2>1. misread' = misread /\ pc[t] = "write" /\ PlanOf(t)
    BY <1>4 DEF Write, SideInv, Plans
  <2>2. side' = [side EXCEPT ![Target(t)] = plan[t]]
    BY <1>4 DEF Write
  <2> QED
    BY <2>1, <2>2 DEF SideInv, TypeOK
<1>5. CASE UnlinkSide(t)
  <2>1. side' = [side EXCEPT ![Target(t)] = NoSide]
    BY <1>5 DEF UnlinkSide, UnlinkFails
  <2> QED
    BY <2>1, NoSideIsSide DEF SideInv, TypeOK
<1>6. CASE ~Write(t) /\ ~UnlinkSide(t)
  BY <1>3, <1>6 DEF Step, Encode, EncodeRaises, Enter, EnterTimeout, PlanSection, CarryUser,
         UnlinkCore, UnlinkThumbs, UnlinkFails, Leave, Return, disk
<1> QED
  BY <1>4, <1>5, <1>6

\* The date of a sidecar stands and its pairing is never dropped.
THEOREM PastIsKept == Spec => SidecarKeepsItsPast
<1>1. ASSUME SideInv, [Next]_vars, NEW f \in Fps,
             side[f].exists, side'[f].exists, ~misread'
      PROVE  /\ side[f].created # 0 => side'[f].created = side[f].created
             /\ side[f].pair # NoFp => side'[f].pair # NoFp
  <2>1. CASE side'[f] = side[f]
    BY <2>1
  <2>2. CASE side'[f] # side[f]
    <3>1. PICK t \in Threads : /\ pc[t] = "write" /\ Target(t) = f
                               /\ side'[f] = plan[t] /\ PlanOf(t)
      BY <1>1, <2>2, WritesAreWhole
    <3>2. ~misread
      BY <1>1, <2>2, WritesAreWhole
    <3> QED
      BY <1>1, <3>1, <3>2 DEF PlanOf
  <2> QED
    BY <2>1, <2>2
<1> DEFINE Keeps(f) == (side[f].exists /\ side'[f].exists /\ ~misread') =>
                          /\ side[f].created # 0 => side'[f].created = side[f].created
                          /\ side[f].pair # NoFp => side'[f].pair # NoFp
<1>2. SideInv /\ [Next]_vars => [\A f \in Fps : Keeps(f)]_vars
  BY <1>1
<1> QED
  BY <1>2, Invariance, PTL DEF Spec, SidecarKeepsItsPast

\* An edit writes back the system block it finds.
THEOREM EditsLeaveTheSystem == Spec => EditsTouchNoSystem
<1>1. ASSUME SideInv, [Next]_vars, NEW f \in Fps,
             side[f].exists, side'[f].exists, ~misread', side'[f].user # side[f].user
      PROVE  side'[f] = [side[f] EXCEPT !.user = side'[f].user]
  <2>1. PICK t \in Threads : /\ pc[t] = "write" /\ Target(t) = f
                             /\ side'[f] = plan[t] /\ PlanOf(t)
    BY <1>1, WritesAreWhole
  <2>2. ~misread
    BY <1>1, WritesAreWhole
  <2>3. side[f].user = edited[f]
    BY <1>1, <2>2 DEF SideInv, Edits
  <2>4. stage[t] = "update"
    BY <1>1, <2>1, <2>2, <2>3 DEF PlanOf
  <2> QED
    BY <2>1, <2>2, <2>4 DEF PlanOf
<1> DEFINE Whole(f) == (side[f].exists /\ side'[f].exists /\ ~misread'
                           /\ side'[f].user # side[f].user)
                          => side'[f] = [side[f] EXCEPT !.user = side'[f].user]
<1>2. SideInv /\ [Next]_vars => [\A f \in Fps : Whole(f)]_vars
  BY <1>1
<1> QED
  BY <1>2, Invariance, PTL DEF Spec, EditsTouchNoSystem
=============================================================================
