------------------------- MODULE SidecarDual_proofs -------------------------
(***************************************************************************)
(* What dual runs leave behind (DualRunsAgree of Sidecar), for any managers, *)
(* fingerprints and requests and any bounds, with one thread that executes *)
(* nodes (OneNode): ComfyUI's prompt worker.                               *)
(*                                                                         *)
(* A dual run describes its two entries and then pairs them, one section   *)
(* after another, with edits and Deletes between any two of them.  The     *)
(* invariant says how far it has come: which entries are described, if     *)
(* they are still there, and which point at the other.                     *)
(***************************************************************************)
EXTENDS Sidecar_proofs

\* No call has failed so far.
Calm == faultsLeft = MaxFaults

\* Which thread serves which request, and how far a run goes.
Course(t) ==
    /\ (pc[t] = "idle" => stage[t] = "sync" /\ ~second[t])
    /\ (t \in Managers /\ pc[t] # "idle" => stage[t] \in {"update", "delete"} /\ pc[t] # "encode")
    /\ (t \in Nodes => stage[t] \notin {"update", "delete"})
    /\ (t \in Nodes /\ pc[t] # "idle" => job[t].kind \in {"single", "dual"})
    /\ (t \in Nodes /\ second[t] => job[t].kind = "dual")
    /\ (stage[t] \in {"pairA", "pairB"} =>
          t \in Nodes /\ second[t] /\ job[t].kind = "dual" /\ job[t].a # job[t].b)
    /\ (stage[t] = "size" =>
          t \in Nodes /\ second[t] /\ job[t].kind = "dual" /\ job[t].a = job[t].b)
    /\ (pc[t] = "encode" => stage[t] = "sync")
Courses == \A t \in Threads : Course(t)

\* A Delete takes the core entry first.
Deleting == \A t \in Threads : pc[t] \in {"unlinkSide", "unlinkThumbs"} => core[Target(t)] = 0

\* Where there is no sidecar there is nothing of one, and none is its own partner.
Blank == \A f \in Fps : ~side[f].exists => side[f] = NoSide
NotOwn ==
    /\ \A f \in Fps : side[f].pair # f
    /\ \A t \in Threads : pc[t] \in {"user", "write"} => plan[t].pair # Target(t)

\* Without a failing call.
Unfailed ==
    Calm => /\ ~misread /\ halfDeleted = {}
            /\ \A t \in Threads :
                  /\ pc[t] # "leaveFailed"
                  /\ (t \in Nodes /\ pc[t] \in SectionPcs \cup {"enter"} =>
                        outcome[t] \in {"hit", "written"})

\* An entry that is there is described, and points at another in a role.
Has(f) == core[f] # 0 => side[f].exists
Points(f, g, size, isUpscale) ==
    side[f].exists => /\ side[f].pair = g /\ side[f].pairSize = size
                      /\ (side[f].upscale <=> isUpscale)

\* What a node run is about to write.
Writing(t) ==
    pc[t] \in {"user", "write"} =>
        /\ (stage[t] \notin {"pairA", "pairB"} =>
              /\ plan[t].pair = side[Target(t)].pair
              /\ (plan[t].upscale <=> side[Target(t)].upscale))
        /\ (stage[t] = "pairA" =>
              plan[t].pair = job[t].b /\ plan[t].pairSize = job[t].sb /\ ~plan[t].upscale)
        /\ (stage[t] = "pairB" =>
              plan[t].pair = job[t].a /\ plan[t].pairSize = job[t].sa /\ plan[t].upscale)
        /\ (stage[t] = "size" => plan[t].size = job[t].sa)

\* How far it has come.
Progress(t) ==
    /\ ((pc[t] = "leave" /\ stage[t] = "sync") \/ stage[t] \in {"refs", "pairA", "pairB", "size"}
          => Has(PassFp(t)))
    /\ (second[t] /\ job[t].a # job[t].b => Has(job[t].a))
    /\ ((stage[t] = "pairA" /\ pc[t] = "leave") \/ stage[t] = "pairB"
          => Points(job[t].a, job[t].b, job[t].sb, FALSE))
    /\ (stage[t] = "pairB" /\ pc[t] \in {"leave", "done"}
          => Points(job[t].b, job[t].a, job[t].sa, TRUE))
    /\ (stage[t] = "size" /\ pc[t] \in {"leave", "done"} /\ side[job[t].a].exists
          => side[job[t].a].size = job[t].sa)
    /\ (pc[t] = "done" /\ job[t].kind = "dual"
          => stage[t] = IF job[t].a = job[t].b THEN "size" ELSE "pairB")
Runs == Calm => \A t \in Nodes : Writing(t) /\ Progress(t)

\* Two entries that point at each other have different roles, but while they are
\* being paired.
Mutual(f, g) == f # g /\ side[f].pair = g /\ side[g].pair = f
Pairing(t, f, g) ==
    stage[t] \in {"pairA", "pairB"} /\ {f, g} = {job[t].a, job[t].b}
Differ ==
    Calm => \A f, g \in Fps :
        Mutual(f, g) => \/ ~(side[f].upscale <=> side[g].upscale)
                        \/ \E t \in Nodes : Pairing(t, f, g)

DualInv ==
    /\ SideInv /\ faultsLeft <= MaxFaults
    /\ Courses /\ Deleting /\ Blank /\ NotOwn /\ Unfailed /\ Runs /\ Differ

-----------------------------------------------------------------------------
(* What a step may do.                                                     *)

\* A step of t leaves the other threads alone.
LEMMA OthersStay ==
    ASSUME TypeOK, NEW t \in Threads, NEW u \in Threads \ {t},
           Step(t) \/ \E r \in Requests : Start(t, r)
    PROVE  /\ job'[u] = job[u] /\ second'[u] = second[u] /\ stage'[u] = stage[u]
           /\ pc'[u] = pc[u] /\ plan'[u] = plan[u] /\ outcome'[u] = outcome[u]
           /\ Target(u)' = Target(u) /\ PassFp(u)' = PassFp(u)
<1>1. /\ job'[u] = job[u] /\ second'[u] = second[u] /\ stage'[u] = stage[u]
      /\ pc'[u] = pc[u] /\ plan'[u] = plan[u] /\ outcome'[u] = outcome[u]
  BY DEF TypeOK, Step, Start, Encode, EncodeRaises, Enter, EnterTimeout, PlanSection,
         CarryUser, Write, UnlinkCore, UnlinkSide, UnlinkThumbs, UnlinkFails, Leave, Return, Go
<1> QED
  BY <1>1 DEF Target, PassFp

\* A failing call is counted.
LEMMA FaultsCount ==
    ASSUME TypeOK, faultsLeft <= MaxFaults, [Next]_vars
    PROVE  /\ faultsLeft' \in {faultsLeft, faultsLeft - 1} /\ faultsLeft' <= MaxFaults
           /\ (Calm' => Calm /\ faultsLeft' = faultsLeft /\ ~Fault)
<1>1. faultsLeft \in Nat /\ MaxFaults \in Nat
  BY SidecarAssumption DEF TypeOK
<1>2. faultsLeft' \in {faultsLeft, faultsLeft - 1}
  BY DEF Next, Step, Start, Encode, EncodeRaises, Enter, EnterTimeout, PlanSection, Loads,
         CarryUser, Write, UnlinkCore, UnlinkSide, UnlinkThumbs, UnlinkFails, Leave, Return, Rest,
         Fault, vars, history
<1> QED
  BY <1>1, <1>2 DEF Calm, Fault

\* What follows a pass or a section of a run.
Follows(t, l, s, two) ==
    \/ /\ l = "done" /\ s = stage[t] /\ (two <=> second[t])
       /\ (t \in Nodes /\ pc[t] = "leave" /\ job[t].kind = "dual"
             => stage[t] \in {"pairB", "size"})
    \/ /\ t \in Nodes /\ l = "enter" /\ s = "refs" /\ (two <=> second[t]) /\ stage[t] = "sync"
    \/ /\ t \in Nodes /\ job[t].kind = "dual" /\ l = "encode" /\ s = "sync" /\ two
       /\ stage[t] \in {"sync", "refs"} /\ ~second[t]
    \/ /\ t \in Nodes /\ job[t].kind = "dual" /\ second[t] /\ l = "enter" /\ two
       /\ s = (IF job[t].a = job[t].b THEN "size" ELSE "pairA") /\ stage[t] \in {"sync", "refs"}
    \/ /\ l = "enter" /\ s = "pairB" /\ (two <=> second[t])
       /\ stage[t] = "pairA" /\ pc[t] = "leave"

\* A thread that leaves a section goes where its run says.
LEMMA AfterCourse ==
    ASSUME TypeOK, Courses, NEW t \in Threads, pc[t] \in {"leave", "leaveFailed"}
    PROVE  Follows(t, After(t)[1], After(t)[2], After(t)[3])
<1>1. Course(t) /\ t \in Nodes \cup Managers /\ stage[t] \in Stages /\ second[t] \in BOOLEAN
  BY DEF Courses, Threads, TypeOK
<1>2. t \in Managers => stage[t] \in {"update", "delete"}
  BY <1>1 DEF Course
<1>3. t \in Nodes => job[t].kind \in {"single", "dual"}
  BY <1>1 DEF Course
<1>4. ASSUME stage[t] \in {"sync", "refs"}
      PROVE  Follows(t, AfterPass(t)[1], AfterPass(t)[2], AfterPass(t)[3])
  <2>1. t \in Nodes
    BY <1>1, <1>2, <1>4
  <2>2. CASE job[t].kind = "single"
    <3>1. AfterPass(t) = <<"done", stage[t], second[t]>>
      BY <2>2 DEF AfterPass
    <3> QED
      BY <2>2, <3>1 DEF Follows
  <2>3. CASE job[t].kind = "dual" /\ ~second[t]
    <3>1. AfterPass(t) = <<"encode", "sync", TRUE>>
      BY <2>3 DEF AfterPass
    <3> QED
      BY <1>4, <2>1, <2>3, <3>1 DEF Follows
  <2>4. CASE job[t].kind = "dual" /\ second[t]
    <3>1. AfterPass(t) = <<"enter", IF job[t].a = job[t].b THEN "size" ELSE "pairA", TRUE>>
      BY <2>4 DEF AfterPass
    <3> QED
      BY <1>4, <2>1, <2>4, <3>1 DEF Follows
  <2> QED
    BY <1>3, <2>1, <2>2, <2>3, <2>4
<1>5. CASE stage[t] = "sync" /\ job[t].trace # "impossible"
  <2>1. After(t) = <<"enter", "refs", second[t]>>
    BY <1>5 DEF After
  <2> QED
    BY <1>1, <1>2, <1>5, <2>1 DEF Follows
<1>6. CASE (stage[t] = "sync" /\ job[t].trace = "impossible") \/ stage[t] = "refs"
  <2>1. After(t) = AfterPass(t)
    BY <1>6 DEF After
  <2> QED
    BY <1>4, <1>6, <2>1
<1>7. CASE stage[t] = "pairA" /\ pc[t] = "leave"
  <2>1. After(t) = <<"enter", "pairB", second[t]>>
    BY <1>7 DEF After
  <2> QED
    BY <1>7, <2>1 DEF Follows
<1>8. CASE stage[t] \notin {"sync", "refs"} /\ ~(stage[t] = "pairA" /\ pc[t] = "leave")
  <2>1. After(t) = <<"done", stage[t], second[t]>>
    BY <1>8 DEF After
  <2>2. (t \in Nodes /\ pc[t] = "leave") => stage[t] \in {"pairB", "size"}
    BY <1>1, <1>8 DEF Course, Stages
  <2> QED
    BY <2>1, <2>2 DEF Follows
<1> QED
  BY <1>5, <1>6, <1>7, <1>8

\* Threads keep to their requests.
LEMMA CoursesStep ==
    ASSUME TypeOK, Courses, Routes, [Next]_vars
    PROVE  Courses'
<1>1. ASSUME NEW t \in Threads, Step(t) \/ \E r \in Requests : Start(t, r), Course(t)'
      PROVE  Courses'
  <2>1. ASSUME NEW u \in Threads \ {t} PROVE Course(u)'
    <3>1. /\ job'[u] = job[u] /\ second'[u] = second[u] /\ stage'[u] = stage[u]
          /\ pc'[u] = pc[u]
      BY <1>1, OthersStay
    <3>2. Course(u)
      BY DEF Courses
    <3> QED
      BY <3>1, <3>2 DEF Course
  <2> QED
    BY <1>1, <2>1 DEF Courses
<1>2. ASSUME NEW t \in Threads PROVE Course(t) /\ stage[t] \in Stages /\ t \in Nodes \cup Managers
  BY DEF Courses, TypeOK, Threads
<1>3. Nodes \cap Managers = {}
  BY SidecarAssumption
<1>4. ASSUME NEW t \in Threads, NEW r \in Requests, Start(t, r) PROVE Course(t)'
  <2>1. /\ job'[t] = r /\ second'[t] = FALSE /\ pc'[t] = (IF t \in Nodes THEN "encode" ELSE "enter")
        /\ stage'[t] = (IF t \in Nodes THEN "sync" ELSE r.kind)
        /\ (IF t \in Nodes THEN r.kind \in {"single", "dual"} ELSE r.kind \in {"update", "delete"})
    BY <1>4 DEF Start, Go, TypeOK
  <2> QED
    BY <1>2, <1>3, <2>1 DEF Course
<1>5. ASSUME NEW t \in Threads, Encode(t) PROVE Course(t)'
  <2>1. /\ pc[t] = "encode" /\ pc'[t] = "enter" /\ stage'[t] = "sync" /\ job' = job /\ second' = second
    BY <1>5 DEF Encode, Go, TypeOK
  <2> QED
    BY <1>2, <2>1 DEF Course
<1>6. ASSUME NEW t \in Threads, Section(t) PROVE Course(t)'
  <2>1. UNCHANGED <<job, second, stage>>
    BY <1>6 DEF Section, EncodeRaises, Enter, EnterTimeout, PlanSection, CarryUser, Write,
       UnlinkCore, UnlinkSide, UnlinkThumbs
  <2>2. pc[t] \notin {"idle"} /\ pc'[t] \notin {"idle", "encode"}
    BY <1>6 DEF Section, EncodeRaises, Enter, EnterTimeout, PlanSection, CarryUser, Write,
       UnlinkCore, UnlinkSide, UnlinkThumbs, UnlinkFails, Go, TypeOK
  <2> QED
    BY <1>2, <2>1, <2>2 DEF Course
<1>7. ASSUME NEW t \in Threads, Leave(t) PROVE Course(t)'
  <2>1. /\ pc[t] \in {"leave", "leaveFailed"} /\ pc'[t] = After(t)[1] /\ stage'[t] = After(t)[2]
        /\ second'[t] = After(t)[3] /\ job' = job
    BY <1>7 DEF Leave, Go, TypeOK
  <2>2. Course(t) /\ (t \in Nodes => t \notin Managers)
    BY <1>2, <1>3
  <2>3. Follows(t, pc'[t], stage'[t], second'[t])
    BY <1>2, <2>1, AfterCourse
  <2>4. pc[t] # "idle"
    BY <2>1
  <2> QED
    BY <2>1, <2>2, <2>3, <2>4 DEF Course, Follows
<1>8. ASSUME NEW t \in Threads, Return(t) PROVE Course(t)'
  <2>1. pc'[t] = "idle" /\ stage'[t] = "sync" /\ second'[t] = FALSE
    BY <1>8 DEF Return, Go, TypeOK
  <2> QED
    BY <1>2, <2>1 DEF Course
<1>9. CASE Rest \/ UNCHANGED vars
  BY <1>9 DEF Rest, vars, Courses, Course
<1>10. ASSUME NEW t \in Threads, Step(t) PROVE Courses'
  BY <1>1, <1>5, <1>6, <1>7, <1>8, <1>10 DEF Step, Section
<1> QED
  BY <1>1, <1>4, <1>9, <1>10 DEF Next

\* A thread that takes a sidecar has taken the core entry.
LEMMA DeletingStep ==
    ASSUME TypeOK, Holding, Deleting, [Next]_vars
    PROVE  Deleting'
<1> DEFINE Takes(t) == pc[t] \in {"unlinkSide", "unlinkThumbs"} => core[Target(t)] = 0
<1>1. ASSUME NEW t \in Threads, Step(t) \/ \E r \in Requests : Start(t, r),
             NEW u \in Threads \ {t}
      PROVE  Takes(u)'
  <2>1. pc'[u] = pc[u] /\ Target(u)' = Target(u)
    BY <1>1, OthersStay
  <2>2. pc[u] \in {"unlinkSide", "unlinkThumbs"} => core'[Target(u)] = core[Target(u)]
    BY <1>1, LockKeeps DEF SectionPcs
  <2>3. Takes(u)
    BY DEF Deleting
  <2> QED
    BY <2>1, <2>2, <2>3
<1>2. ASSUME NEW t \in Threads, Step(t) \/ \E r \in Requests : Start(t, r)
      PROVE  Takes(t)'
  <2>1. CASE UnlinkCore(t)
    <3>1. Target(t)' = Target(t) /\ Target(t) \in Fps
      BY <2>1, OwnTarget, TargetType DEF Section
    <3> QED
      BY <2>1, <3>1 DEF UnlinkCore, UnlinkFails, Go, TypeOK
  <2>2. CASE UnlinkSide(t)
    <3>1. Target(t)' = Target(t) /\ Target(t) \in Fps
      BY <2>2, OwnTarget, TargetType DEF Section
    <3>2. pc[t] = "unlinkSide" /\ core' = core /\ core[Target(t)] = 0
      BY <2>2 DEF UnlinkSide, UnlinkFails, Deleting
    <3> QED
      BY <3>1, <3>2
  <2>3. CASE Leave(t)
    BY <2>3, AfterType DEF Leave, Go, TypeOK
  <2>4. CASE ~UnlinkCore(t) /\ ~UnlinkSide(t) /\ ~Leave(t)
    <3>1. pc'[t] \notin {"unlinkSide", "unlinkThumbs"}
      BY <1>2, <2>4 DEF Step, Start, Encode, EncodeRaises, Enter, EnterTimeout, PlanSection,
         CarryUser, Write, UnlinkThumbs, UnlinkFails, Return, Go, TypeOK
    <3> QED
      BY <3>1
  <2> QED
    BY <2>1, <2>2, <2>3, <2>4
<1>3. CASE Rest \/ UNCHANGED vars
  <2>1. UNCHANGED <<pc, core, job, second, stage>>
    BY <1>3 DEF Rest, vars, disk
  <2>2. \A t \in Threads : Target(t)' = Target(t)
    BY <2>1, TargetsStay
  <2> QED
    BY <2>1, <2>2 DEF Deleting
<1>4. (\A t \in Threads : Takes(t)') => Deleting'
  BY DEF Deleting
<1> QED
  BY <1>1, <1>2, <1>3, <1>4 DEF Next

\* How a step may change the sidecars.
LEMMA SidesChange ==
    ASSUME TypeOK, [Next]_vars
    PROVE  \/ side' = side
           \/ \E t \in Threads : /\ Write(t) /\ pc[t] = "write" /\ Target(t) \in Fps
                                 /\ side' = [side EXCEPT ![Target(t)] = plan[t]]
           \/ \E t \in Threads : /\ UnlinkSide(t) /\ pc[t] = "unlinkSide" /\ Target(t) \in Fps
                                 /\ side' = [side EXCEPT ![Target(t)] = NoSide]
<1>1. CASE Rest \/ UNCHANGED vars
  BY <1>1 DEF Rest, vars, disk
<1>2. ASSUME NEW t \in Threads, NEW r \in Requests, Start(t, r) PROVE side' = side
  BY <1>2 DEF Start, disk
<1>3. ASSUME NEW t \in Threads, Write(t), side' # side
      PROVE  /\ pc[t] = "write" /\ Target(t) \in Fps
             /\ side' = [side EXCEPT ![Target(t)] = plan[t]]
  BY <1>3, TargetType DEF Write
<1>4. ASSUME NEW t \in Threads, UnlinkSide(t), side' # side
      PROVE  /\ pc[t] = "unlinkSide" /\ Target(t) \in Fps
             /\ side' = [side EXCEPT ![Target(t)] = NoSide]
  BY <1>4, TargetType DEF UnlinkSide, UnlinkFails
<1>5. ASSUME NEW t \in Threads, Step(t), ~Write(t), ~UnlinkSide(t) PROVE side' = side
  BY <1>5 DEF Step, Encode, EncodeRaises, Enter, EnterTimeout, PlanSection, CarryUser,
         UnlinkCore, UnlinkThumbs, UnlinkFails, Leave, Return, disk
<1> QED
  BY <1>1, <1>2, <1>3, <1>4, <1>5 DEF Next

\* What is written is there, and what is taken leaves nothing.
LEMMA BlankStep ==
    ASSUME TypeOK, Plans, Blank, [Next]_vars
    PROVE  Blank'
<1>1. CASE side' = side
  BY <1>1 DEF Blank
<1>2. ASSUME NEW t \in Threads, pc[t] = "write", Target(t) \in Fps,
             side' = [side EXCEPT ![Target(t)] = plan[t]]
      PROVE  Blank'
  <2>1. plan[t].exists
    BY <1>2 DEF Plans, PlanOf
  <2> QED
    BY <1>2, <2>1 DEF Blank, TypeOK
<1>3. ASSUME NEW t \in Threads, Target(t) \in Fps, side' = [side EXCEPT ![Target(t)] = NoSide]
      PROVE  Blank'
  BY <1>3 DEF Blank, TypeOK
<1> QED
  BY <1>1, <1>2, <1>3, SidesChange

\* The partner in what a section plans.
LEMMA PlannedPair ==
    ASSUME TypeOK, NEW t \in Threads, NEW v \in Sides
    PROVE  Planned(t, v).pair = IF stage[t] = "pairA" /\ v.exists THEN job[t].b
                                ELSE IF stage[t] = "pairB" /\ v.exists THEN job[t].a
                                ELSE v.pair
<1>1. CASE stage[t] = "sync"
  BY <1>1 DEF Planned, Synced, Sides
<1>2. CASE stage[t] \in {"pairA", "pairB"}
  BY <1>2 DEF Planned, Paired, Sides
<1>3. CASE stage[t] \in {"refs", "size", "update", "delete"}
  BY <1>3 DEF Planned, Traced, Resized, Edited, Sides
<1> QED
  BY <1>1, <1>2, <1>3 DEF TypeOK, Stages

\* No sidecar becomes its own partner.
LEMMA NotOwnStep ==
    ASSUME TypeOK, Courses, NotOwn, [Next]_vars
    PROVE  NotOwn'
<1> DEFINE Apart(t) == pc[t] \in {"user", "write"} => plan[t].pair # Target(t)
<1>1. \A f \in Fps : side'[f].pair # f
  <2>1. NoSide.pair \notin Fps
    BY SidecarAssumption DEF NoSide
  <2>2. ASSUME NEW t \in Threads, pc[t] = "write", Target(t) \in Fps,
               side' = [side EXCEPT ![Target(t)] = plan[t]]
        PROVE  \A f \in Fps : side'[f].pair # f
    BY <2>2 DEF NotOwn, TypeOK
  <2>3. ASSUME NEW t \in Threads, Target(t) \in Fps,
               side' = [side EXCEPT ![Target(t)] = NoSide]
        PROVE  \A f \in Fps : side'[f].pair # f
    BY <2>1, <2>3 DEF NotOwn, TypeOK
  <2> QED
    BY <2>2, <2>3, SidesChange DEF NotOwn
<1>2. ASSUME NEW t \in Threads, Step(t) \/ \E r \in Requests : Start(t, r),
             NEW u \in Threads \ {t}
      PROVE  Apart(u)'
  <2>1. pc'[u] = pc[u] /\ Target(u)' = Target(u) /\ plan'[u] = plan[u]
    BY <1>2, OthersStay
  <2>2. Apart(u)
    BY DEF NotOwn
  <2> QED
    BY <2>1, <2>2
<1>3. ASSUME NEW t \in Threads, Step(t) \/ \E r \in Requests : Start(t, r)
      PROVE  Apart(t)'
  <2>1. CASE PlanSection(t)
    <3>1. Target(t)' = Target(t) /\ Target(t) \in Fps
      BY <2>1, OwnTarget, TargetType DEF Section
    <3>2. \A v \in {side[Target(t)], NoSide} : v \in Sides /\ v.pair # Target(t)
      <4>1. NoSide.pair = NoFp
        BY DEF NoSide
      <4>2. side[Target(t)] \in Sides /\ side[Target(t)].pair # Target(t)
        BY <3>1 DEF TypeOK, NotOwn
      <4> QED
        BY <3>1, <4>1, <4>2, NoSideIsSide, SidecarAssumption
    <3>3. /\ stage[t] = "pairA" => Target(t) = job[t].a /\ job[t].a # job[t].b
          /\ stage[t] = "pairB" => Target(t) = job[t].b /\ job[t].a # job[t].b
      BY DEF Courses, Course, Target
    <3>4. \A v \in {side[Target(t)], NoSide} : Planned(t, v).pair # Target(t)
      BY <3>2, <3>3, PlannedPair
    <3>5. \/ pc'[t] = "leave"
          \/ \E v \in {side[Target(t)], NoSide} : plan'[t] = Planned(t, v)
      BY <2>1 DEF PlanSection, Go, TypeOK
    <3> QED
      BY <3>1, <3>4, <3>5
  <2>2. CASE CarryUser(t)
    <3>1. Target(t)' = Target(t) /\ pc[t] = "user"
      BY <2>2, OwnTarget DEF Section, CarryUser
    <3>2. PICK v \in {side[Target(t)], NoSide} : plan' = [plan EXCEPT ![t].user = v.user]
      BY <2>2 DEF CarryUser
    <3>3. plan[t] \in Sides /\ plan'[t] = [plan[t] EXCEPT !.user = v.user]
      BY <3>2 DEF TypeOK
    <3>4. plan'[t].pair = plan[t].pair
      BY <3>3 DEF Sides
    <3> QED
      BY <3>1, <3>4 DEF NotOwn
  <2>3. CASE Leave(t)
    BY <2>3, AfterType DEF Leave, Go, TypeOK
  <2>4. CASE ~PlanSection(t) /\ ~CarryUser(t) /\ ~Leave(t)
    <3>1. pc'[t] \notin {"user", "write"}
      BY <1>3, <2>4 DEF Step, Start, Encode, EncodeRaises, Enter, EnterTimeout,
         Write, UnlinkCore, UnlinkSide, UnlinkThumbs, UnlinkFails, Return, Go, TypeOK
    <3> QED
      BY <3>1
  <2> QED
    BY <2>1, <2>2, <2>3, <2>4
<1>4. CASE Rest \/ UNCHANGED vars
  <2>1. UNCHANGED <<pc, plan, side, job, second, stage>>
    BY <1>4 DEF Rest, vars, disk
  <2>2. \A t \in Threads : Target(t)' = Target(t)
    BY <2>1, TargetsStay
  <2> QED
    BY <2>1, <2>2 DEF NotOwn
<1>5. (\A t \in Threads : Apart(t)') => NotOwn'
  BY <1>1 DEF NotOwn
<1> QED
  BY <1>2, <1>3, <1>4, <1>5 DEF Next

\* As long as nothing fails, every read and every unlink succeeds.
LEMMA UnfailedStep ==
    ASSUME TypeOK, faultsLeft <= MaxFaults, Unfailed, [Next]_vars
    PROVE  Unfailed'
<1> SUFFICES ASSUME Calm' PROVE Unfailed'
  BY DEF Unfailed
<1> DEFINE Fine(t) == /\ pc[t] # "leaveFailed"
                      /\ (t \in Nodes /\ pc[t] \in SectionPcs \cup {"enter"} =>
                            outcome[t] \in {"hit", "written"})
<1>1. /\ ~Fault /\ faultsLeft' = faultsLeft
      /\ ~misread /\ halfDeleted = {} /\ \A t \in Threads : Fine(t)
  BY FaultsCount DEF Unfailed
<1>2. ~misread' /\ halfDeleted' = {}
  BY <1>1 DEF Next, Step, Start, Encode, EncodeRaises, Enter, EnterTimeout, PlanSection, Loads,
         CarryUser, Write, UnlinkCore, UnlinkSide, UnlinkThumbs, UnlinkFails, Leave, Return, Rest,
         vars, history
<1>3. ASSUME NEW t \in Threads, Step(t) \/ \E r \in Requests : Start(t, r),
             NEW u \in Threads \ {t}
      PROVE  Fine(u)'
  <2>1. pc'[u] = pc[u] /\ outcome'[u] = outcome[u]
    BY <1>3, OthersStay
  <2> QED
    BY <1>1, <2>1
<1>4. ASSUME NEW t \in Threads, NEW r \in Requests, Start(t, r) PROVE Fine(t)'
  BY <1>4, SidecarAssumption DEF Start, Go, TypeOK, SectionPcs
<1>5. ASSUME NEW t \in Threads, Encode(t) PROVE Fine(t)'
  <2>1. pc'[t] = "enter" /\ outcome'[t] \in {"hit", "written"}
    BY <1>1, <1>5 DEF Encode, Go, TypeOK
  <2> QED
    BY <2>1
<1>6. ASSUME NEW t \in Threads, EnterTimeout(t) \/ Return(t) \/ EncodeRaises(t) PROVE Fine(t)'
  BY <1>6 DEF EnterTimeout, Return, EncodeRaises, Go, TypeOK, SectionPcs
<1>7. ASSUME NEW t \in Threads, Enter(t) PROVE Fine(t)'
  <2>1. pc[t] = "enter" /\ outcome' = outcome /\ pc'[t] # "leaveFailed"
    BY <1>7 DEF Enter, Go, TypeOK
  <2> QED
    BY <1>1, <2>1
<1>8. ASSUME NEW t \in Threads,
             \/ PlanSection(t) \/ CarryUser(t) \/ Write(t)
             \/ UnlinkCore(t) \/ UnlinkSide(t) \/ UnlinkThumbs(t)
      PROVE  Fine(t)'
  <2>1. pc[t] \in SectionPcs /\ outcome' = outcome /\ pc'[t] # "leaveFailed"
    BY <1>1, <1>8 DEF PlanSection, CarryUser, Write, UnlinkCore, UnlinkSide, UnlinkThumbs,
       UnlinkFails, Go, TypeOK, SectionPcs
  <2> QED
    BY <1>1, <2>1
<1>9. ASSUME NEW t \in Threads, Leave(t) PROVE Fine(t)'
  <2>1. pc[t] \in SectionPcs /\ outcome' = outcome /\ pc'[t] # "leaveFailed"
    BY <1>9, AfterType DEF Leave, Go, TypeOK, SectionPcs
  <2> QED
    BY <1>1, <2>1
<1>10. ASSUME Rest \/ UNCHANGED vars, NEW t \in Threads PROVE Fine(t)'
  BY <1>1, <1>10 DEF Rest, vars
<1>11. (\A t \in Threads : Fine(t)') => Unfailed'
  BY <1>2 DEF Unfailed
<1> HIDE DEF Fine
<1> QED
  BY <1>3, <1>4, <1>5, <1>6, <1>7, <1>8, <1>9, <1>10, <1>11 DEF Next, Step

-----------------------------------------------------------------------------
(* A dual run, and what may happen to its entries meanwhile.               *)

\* What edits and Deletes leave of the entries and of the runs.
SameSystem(f) ==
    /\ (side'[f].exists <=> side[f].exists) /\ (side'[f].upscale <=> side[f].upscale)
    /\ side'[f].size = side[f].size
    /\ side'[f].pair = side[f].pair /\ side'[f].pairSize = side[f].pairSize
Benign ==
    /\ \A f \in Fps : /\ core'[f] \in {core[f], 0}
                      /\ SameSystem(f) \/ (core'[f] = 0 /\ side'[f] = NoSide)
    /\ \A t \in Nodes :
          /\ job'[t] = job[t] /\ second'[t] = second[t] /\ stage'[t] = stage[t]
          /\ pc'[t] = pc[t] /\ plan'[t] = plan[t]
          /\ Target(t)' = Target(t) /\ PassFp(t)' = PassFp(t)
          /\ pc[t] \in {"user", "write"} => side'[Target(t)] = side[Target(t)]

\* An edit changes nothing but the user block.
LEMMA EditsAreBenign ==
    ASSUME SideInv, Courses, Unfailed, Calm, NEW t \in Managers, NEW f \in Fps,
           pc[t] = "write", Target(t) = f, side'[f] = plan[t]
    PROVE  SameSystem(f)
<1>1. t \in Threads /\ ~misread /\ side[f] \in Sides /\ plan[t] \in Sides
  BY DEF Threads, Unfailed, SideInv, TypeOK
<1>2. stage[t] = "update"
  BY <1>1 DEF SideInv, Routes, Courses, Course
<1>3. plan[t] = [side[f] EXCEPT !.user = plan[t].user]
  BY <1>1, <1>2 DEF SideInv, Plans, PlanOf
<1>4. /\ plan[t].exists = side[f].exists /\ plan[t].upscale = side[f].upscale
      /\ plan[t].size = side[f].size
      /\ plan[t].pair = side[f].pair /\ plan[t].pairSize = side[f].pairSize
  BY <1>1, <1>3 DEF Sides
<1> QED
  BY <1>4 DEF SameSystem

\* So are all steps of a manager.
LEMMA ManagersAreBenign ==
    ASSUME SideInv, Courses, Deleting, Unfailed, Calm, NEW t \in Managers,
           Step(t) \/ \E r \in Requests : Start(t, r)
    PROVE  Benign
<1>1. t \in Threads /\ TypeOK /\ Holding /\ t \notin Nodes /\ Nodes \subseteq Threads
  BY SidecarAssumption DEF Threads, SideInv
<1>2. ASSUME NEW u \in Nodes
      PROVE  /\ job'[u] = job[u] /\ second'[u] = second[u] /\ stage'[u] = stage[u]
             /\ pc'[u] = pc[u] /\ plan'[u] = plan[u]
             /\ Target(u)' = Target(u) /\ PassFp(u)' = PassFp(u)
             /\ pc[u] \in {"user", "write"} => side'[Target(u)] = side[Target(u)]
  <2>1. u \in Threads \ {t}
    BY <1>1
  <2> QED
    BY <1>1, <2>1, OthersStay, LockKeeps DEF SectionPcs
<1>3. ~Encode(t)
  BY <1>1 DEF Courses, Course, Encode
<1>4. ASSUME NEW f \in Fps PROVE core'[f] \in {core[f], 0}
  <2>1. CASE UnlinkCore(t)
    BY <1>1, <2>1, TargetType DEF UnlinkCore, UnlinkFails, TypeOK
  <2>2. CASE ~UnlinkCore(t)
    BY <1>3, <2>2 DEF Step, Start, EncodeRaises, Enter, EnterTimeout, PlanSection, CarryUser,
       Write, UnlinkSide, UnlinkThumbs, UnlinkFails, Leave, Return, disk
  <2> QED
    BY <2>1, <2>2
<1>5. ASSUME NEW f \in Fps PROVE SameSystem(f) \/ (core'[f] = 0 /\ side'[f] = NoSide)
  <2>1. CASE side' = side
    BY <2>1 DEF SameSystem
  <2>2. ASSUME Write(t), side' # side PROVE SameSystem(f)
    <3>1. pc[t] = "write" /\ side' = [side EXCEPT ![Target(t)] = plan[t]] /\ Target(t) \in Fps
      BY <1>1, <2>2, TargetType DEF Write
    <3>2. CASE Target(t) = f
      <4>1. side'[f] = plan[t]
        BY <1>1, <3>1, <3>2 DEF TypeOK
      <4> QED
        BY <3>1, <3>2, <4>1, EditsAreBenign
    <3>3. CASE Target(t) # f
      BY <3>1, <3>3 DEF SameSystem
    <3> QED
      BY <3>2, <3>3
  <2>3. ASSUME UnlinkSide(t), side' # side
        PROVE  SameSystem(f) \/ (core'[f] = 0 /\ side'[f] = NoSide)
    <3>1. /\ pc[t] = "unlinkSide" /\ side' = [side EXCEPT ![Target(t)] = NoSide]
          /\ Target(t) \in Fps /\ core' = core
      BY <1>1, <2>3, TargetType DEF UnlinkSide, UnlinkFails
    <3>2. core[Target(t)] = 0
      BY <1>1, <3>1 DEF Deleting
    <3> QED
      BY <1>1, <3>1, <3>2 DEF SameSystem, TypeOK
  <2>4. ASSUME ~Write(t), ~UnlinkSide(t) PROVE side' = side
    BY <1>3, <2>4 DEF Step, Start, EncodeRaises, Enter, EnterTimeout, PlanSection, CarryUser,
       UnlinkCore, UnlinkThumbs, UnlinkFails, Leave, Return, disk
  <2> QED
    BY <2>1, <2>2, <2>3, <2>4
<1> QED
  BY <1>2, <1>4, <1>5 DEF Benign

\* They take nothing from a run but entries that are deleted.
LEMMA BenignKeepsRuns ==
    ASSUME TypeOK, Benign, NEW t \in Nodes, Writing(t), Progress(t)
    PROVE  Writing(t)' /\ Progress(t)'
<1>1. /\ job'[t] = job[t] /\ second'[t] = second[t] /\ stage'[t] = stage[t]
      /\ pc'[t] = pc[t] /\ plan'[t] = plan[t]
      /\ Target(t)' = Target(t) /\ PassFp(t)' = PassFp(t)
      /\ pc[t] \in {"user", "write"} => side'[Target(t)] = side[Target(t)]
  BY DEF Benign
<1>2. /\ t \in Threads /\ PassFp(t) \in Fps /\ job[t].a \in Fps /\ job[t].b \in Fps
  BY DEF Threads, TypeOK, Jobs, PassFp
<1>3. ~NoSide.exists
  BY NoSideIsSide
<1>4. ASSUME NEW f \in Fps, Has(f) PROVE Has(f)'
  BY <1>4 DEF Has, Benign, SameSystem
<1>5. ASSUME NEW f \in Fps, side'[f].exists PROVE side[f].exists /\ SameSystem(f)
  BY <1>3, <1>5 DEF Benign, SameSystem
<1>7. Writing(t)'
  BY <1>1 DEF Writing
<1>8. Progress(t)'
  <2>1. Has(PassFp(t))' <=> (core'[PassFp(t)] # 0 => side'[PassFp(t)].exists)
    BY <1>1 DEF Has
  <2>2. Has(PassFp(t)) => Has(PassFp(t))'
    BY <1>1, <1>2, <1>4, <2>1 DEF Has
  <2>3. Has(job[t].a) => Has(job[t].a)'
    BY <1>1, <1>2, <1>4 DEF Has
  <2>4. Points(job[t].a, job[t].b, job[t].sb, FALSE) => Points(job[t].a, job[t].b, job[t].sb, FALSE)'
    BY <1>1, <1>2, <1>5 DEF Points, SameSystem
  <2>5. Points(job[t].b, job[t].a, job[t].sa, TRUE) => Points(job[t].b, job[t].a, job[t].sa, TRUE)'
    BY <1>1, <1>2, <1>5 DEF Points, SameSystem
  <2>6. side'[job[t].a].exists => side[job[t].a].exists /\ side'[job[t].a].size = side[job[t].a].size
    BY <1>2, <1>5 DEF SameSystem
  <2>7. stage'[t] \in {"refs", "pairA", "pairB", "size"} \/ (pc'[t] = "leave" /\ stage'[t] = "sync")
          => Has(PassFp(t))'
    BY <1>1, <2>2 DEF Progress
  <2>8. /\ (second[t] /\ job[t].a # job[t].b => Has(job[t].a))'
        /\ ((stage[t] = "pairA" /\ pc[t] = "leave") \/ stage[t] = "pairB"
              => Points(job[t].a, job[t].b, job[t].sb, FALSE))'
        /\ (stage[t] = "pairB" /\ pc[t] \in {"leave", "done"}
              => Points(job[t].b, job[t].a, job[t].sa, TRUE))'
    BY <1>1, <2>3, <2>4, <2>5 DEF Progress
  <2>9. /\ (stage[t] = "size" /\ pc[t] \in {"leave", "done"} /\ side[job[t].a].exists
              => side[job[t].a].size = job[t].sa)'
        /\ (pc[t] = "done" /\ job[t].kind = "dual"
              => stage[t] = IF job[t].a = job[t].b THEN "size" ELSE "pairB")'
    BY <1>1, <2>6 DEF Progress
  <2> QED
    BY <2>7, <2>8, <2>9 DEF Progress
<1> QED
  BY <1>7, <1>8

\* Nor do they make two entries claim the same role.
LEMMA BenignKeepsRoles ==
    ASSUME Benign, Differ, Calm
    PROVE  Differ'
<1> SUFFICES ASSUME NEW f \in Fps, NEW g \in Fps, Mutual(f, g)'
             PROVE  \/ ~(side'[f].upscale <=> side'[g].upscale)
                    \/ \E t \in Nodes : Pairing(t, f, g)'
  BY DEF Differ, Mutual, Pairing
<1>1. NoSide.pair \notin Fps
  BY SidecarAssumption DEF NoSide
<1>2. SameSystem(f) /\ SameSystem(g)
  BY <1>1 DEF Benign, Mutual
<1>3. Mutual(f, g)
  BY <1>2 DEF Mutual, SameSystem
<1>4. CASE ~(side[f].upscale <=> side[g].upscale)
  BY <1>2, <1>4 DEF SameSystem
<1>5. ASSUME NEW t \in Nodes, Pairing(t, f, g) PROVE Pairing(t, f, g)'
  BY <1>5 DEF Pairing, Benign
<1> QED
  BY <1>3, <1>4, <1>5 DEF Differ

\* Under its lock, a section that finds no core entry finds no sidecar either.
LEMMA GoneIsGone ==
    ASSUME SideInv, Unfailed, Calm, NEW t \in Threads, pc[t] = "plan", core[Target(t)] = 0
    PROVE  ~side[Target(t)].exists
<1>1. Target(t) \in Fps /\ halfDeleted = {}
  BY TargetType DEF SideInv, Unfailed
<1>2. ASSUME NEW u \in Threads, Target(u) = Target(t), pc[u] \in {"unlinkSide", "unlinkThumbs"}
      PROVE  FALSE
  <2>1. fpLock[Target(u)] = u /\ fpLock[Target(t)] = t
    BY <1>2 DEF SideInv, Holding, SectionPcs
  <2> QED
    BY <1>2, <2>1
<1> QED
  BY <1>1, <1>2 DEF SideInv, NoPhantom

\* The size and the role in what a section plans.
LEMMA PlannedRole ==
    ASSUME TypeOK, NEW t \in Threads, NEW v \in Sides
    PROVE  LET p == Planned(t, v) IN
           /\ stage[t] \notin {"pairA", "pairB"} => (p.upscale <=> v.upscale)
           /\ (v.exists /\ stage[t] = "pairA") => p.pairSize = job[t].sb /\ ~p.upscale
           /\ (v.exists /\ stage[t] = "pairB") => p.pairSize = job[t].sa /\ p.upscale
           /\ (v.exists /\ stage[t] = "size") => p.size = job[t].sa
<1>1. CASE stage[t] = "sync"
  BY <1>1 DEF Planned, Synced, Sides
<1>2. CASE stage[t] \in {"pairA", "pairB"}
  BY <1>2 DEF Planned, Paired, Sides
<1>3. CASE stage[t] \in {"refs", "size", "update", "delete"}
  BY <1>3 DEF Planned, Traced, Resized, Edited, Sides
<1> QED
  BY <1>1, <1>2, <1>3 DEF TypeOK, Stages

\* What a section of a run decides when its read succeeds.
LEMMA NodePlans ==
    ASSUME Courses, Calm, ~Fault, TypeOK, NEW t \in Nodes, PlanSection(t)
    PROVE  LET f == Target(t)
               p == Planned(t, side[f]) IN
           \/ core[f] = 0 /\ pc'[t] = "leave"
           \/ p = side[f] /\ ~(stage[t] = "sync" /\ SyncWrites(t, side[f])) /\ pc'[t] = "leave"
           \/ /\ (p # side[f] \/ (stage[t] = "sync" /\ SyncWrites(t, side[f])))
              /\ plan'[t] = p /\ pc'[t] = "user"
<1> DEFINE f == Target(t)
<1>1. t \in Threads /\ stage[t] # "update"
  BY DEF Threads, Courses, Course
<1>2. CASE core[f] = 0
  BY <1>1, <1>2 DEF PlanSection, Go, TypeOK
<1>3. CASE core[f] # 0
  <2>1. PICK v \in {side[f], NoSide} :
          /\ Loads(f, v)
          /\ plan' = [plan EXCEPT ![t] = Planned(t, v)]
          /\ Go(t, IF Planned(t, v) = v /\ ~(stage[t] = "sync" /\ SyncWrites(t, v)) THEN "leave"
                   ELSE IF stage[t] = "update" THEN "write" ELSE "user")
    BY <1>1, <1>3 DEF PlanSection
  <2>2. v = side[f]
    BY <2>1 DEF Loads
  <2> QED
    BY <1>1, <2>1, <2>2 DEF Go, TypeOK
<1> QED
  BY <1>2, <1>3

\* A section that is left without a write had nothing to write.
LEMMA NodePlansRight ==
    ASSUME SideInv, Courses, Unfailed, Calm, ~Fault, NEW t \in Nodes, PlanSection(t),
           Writing(t), Progress(t)
    PROVE  Writing(t)' /\ Progress(t)'
<1> DEFINE f == Target(t)
           p == Planned(t, side[f])
<1>1. /\ TypeOK /\ t \in Threads /\ f \in Fps /\ Course(t) /\ side[f] \in Sides /\ pc[t] = "plan"
      /\ outcome[t] \in {"hit", "written"}
  BY TargetType DEF SideInv, Threads, Courses, TypeOK, PlanSection, Unfailed, SectionPcs
<1>2. /\ UNCHANGED <<core, side, job, second, stage>>
      /\ Target(t)' = f /\ PassFp(t)' = PassFp(t)
  <2>1. UNCHANGED <<core, side, job, second, stage>>
    BY DEF PlanSection
  <2> QED
    BY <1>1, <2>1, TargetsStay DEF PassFp
<1>3. /\ stage[t] \in {"sync", "refs"} => f = PassFp(t)
      /\ stage[t] = "pairA" => f = job[t].a
      /\ stage[t] = "pairB" => f = job[t].b
      /\ stage[t] = "size" => f = job[t].a
  BY DEF Target
<1>4. core[f] = 0 => ~side[f].exists
  BY <1>1, GoneIsGone
<1>5. stage[t] # "sync" /\ ~side[f].exists => p = side[f]
  BY <1>1, PlannedKeeps
<1>6. /\ stage[t] = "pairA" /\ side[f].exists =>
            p.pair = job[t].b /\ p.pairSize = job[t].sb /\ ~p.upscale
      /\ stage[t] = "pairB" /\ side[f].exists =>
            p.pair = job[t].a /\ p.pairSize = job[t].sa /\ p.upscale
      /\ stage[t] = "size" /\ side[f].exists => p.size = job[t].sa
      /\ stage[t] \notin {"pairA", "pairB"} =>
            p.pair = side[f].pair /\ (p.upscale <=> side[f].upscale)
  BY <1>1, PlannedPair, PlannedRole
<1>7. stage[t] = "sync" /\ ~SyncWrites(t, side[f]) => side[f].exists
  BY <1>1 DEF SyncWrites, Described
<1>8. \/ core[f] = 0 /\ pc'[t] = "leave"
      \/ p = side[f] /\ ~(stage[t] = "sync" /\ SyncWrites(t, side[f])) /\ pc'[t] = "leave"
      \/ /\ (p # side[f] \/ (stage[t] = "sync" /\ SyncWrites(t, side[f])))
         /\ plan'[t] = p /\ pc'[t] = "user"
  BY <1>1, NodePlans
<1> HIDE DEF f, p
<1>9. Writing(t)'
  <2>1. CASE pc'[t] = "leave"
    BY <2>1 DEF Writing
  <2>2. CASE pc'[t] = "user"
    BY <1>2, <1>5, <1>6, <1>8, <2>2 DEF Writing
  <2> QED
    BY <1>8, <2>1, <2>2
<1>10. Progress(t)'
  <2>1. pc'[t] = "leave" /\ stage[t] = "sync" => Has(f)
    BY <1>4, <1>7, <1>8 DEF Has
  <2>2. pc'[t] = "leave" /\ stage[t] = "pairA" => Points(job[t].a, job[t].b, job[t].sb, FALSE)
    BY <1>3, <1>4, <1>6, <1>8 DEF Points
  <2>3. pc'[t] = "leave" /\ stage[t] = "pairB" => Points(job[t].b, job[t].a, job[t].sa, TRUE)
    BY <1>3, <1>4, <1>6, <1>8 DEF Points
  <2>4. pc'[t] = "leave" /\ stage[t] = "size" /\ side[f].exists => side[f].size = job[t].sa
    BY <1>3, <1>4, <1>6, <1>8
  <2>5. pc'[t] \in {"leave", "user"}
    BY <1>8
  <2> QED
    BY <1>1, <1>2, <1>3, <2>1, <2>2, <2>3, <2>4, <2>5 DEF Progress, Has, Points
<1> QED
  BY <1>9, <1>10

\* A write that succeeds leaves what was planned.
LEMMA NodeWritesRight ==
    ASSUME SideInv, Courses, ~Fault, NEW t \in Nodes, Write(t), Writing(t), Progress(t)
    PROVE  Writing(t)' /\ Progress(t)'
<1> DEFINE f == Target(t)
<1>1. TypeOK /\ t \in Threads /\ f \in Fps /\ Course(t) /\ pc[t] = "write" /\ plan[t].exists
  BY TargetType DEF SideInv, Threads, Courses, Write, Plans, PlanOf
<1>2. /\ UNCHANGED <<core, job, second, stage>> /\ pc'[t] = "leave"
      /\ side' = [side EXCEPT ![f] = plan[t]]
      /\ Target(t)' = f /\ PassFp(t)' = PassFp(t)
  <2>1. UNCHANGED <<core, job, second, stage>>
    BY DEF Write
  <2> QED
    BY <1>1, <2>1, TargetsStay DEF Write, Go, TypeOK, PassFp
<1>3. /\ stage[t] \in {"sync", "refs"} => f = PassFp(t)
      /\ stage[t] = "pairA" => f = job[t].a
      /\ stage[t] = "pairB" => f = job[t].b
      /\ stage[t] = "size" => f = job[t].a
  BY DEF Target
<1>4. side'[f] = plan[t] /\ \A g \in Fps \ {f} : side'[g] = side[g]
  BY <1>1, <1>2 DEF TypeOK
<1>5. PassFp(t) \in Fps /\ job[t].a \in Fps /\ job[t].b \in Fps
  BY <1>1 DEF TypeOK, Jobs, PassFp
<1> HIDE DEF f
<1>6. ASSUME NEW g \in Fps, Has(g) \/ g = f PROVE core'[g] # 0 => side'[g].exists
  BY <1>1, <1>2, <1>4, <1>6 DEF Has
<1>7. Writing(t)'
  BY <1>2 DEF Writing
<1>8. Progress(t)'
  <2>1. stage[t] = "pairA" => plan[t].pair = job[t].b /\ plan[t].pairSize = job[t].sb /\ ~plan[t].upscale
    BY <1>1 DEF Writing
  <2>2. stage[t] = "pairB" => plan[t].pair = job[t].a /\ plan[t].pairSize = job[t].sa /\ plan[t].upscale
    BY <1>1 DEF Writing
  <2>3. stage[t] = "size" => plan[t].size = job[t].sa
    BY <1>1 DEF Writing
  <2>4. stage[t] = "pairB" => Points(job[t].a, job[t].b, job[t].sb, FALSE) /\ job[t].a # job[t].b
    BY <1>1 DEF Progress, Course
  <2> QED
    BY <1>1, <1>2, <1>3, <1>4, <1>5, <1>6, <2>1, <2>2, <2>3, <2>4 DEF Progress, Has, Points
<1> QED
  BY <1>7, <1>8

\* Each section is entered when the one before it is done.
LEMMA NodeLeavesRight ==
    ASSUME SideInv, Courses, Unfailed, Calm, NEW t \in Nodes, Leave(t), Writing(t), Progress(t)
    PROVE  Writing(t)' /\ Progress(t)'
<1>1. /\ TypeOK /\ t \in Threads /\ Course(t) /\ pc[t] = "leave"
      /\ pc'[t] = After(t)[1] /\ stage'[t] = After(t)[2] /\ second'[t] = After(t)[3]
      /\ UNCHANGED <<core, side, job>>
  BY DEF SideInv, Threads, Courses, Unfailed, Leave, Go, TypeOK, disk
<1>2. Follows(t, pc'[t], stage'[t], second'[t])
  BY <1>1, AfterCourse
<1>3. Writing(t)'
  BY <1>2 DEF Writing, Follows
<1> DEFINE a == job[t].a
           b == job[t].b
           l == pc'[t]
           s == stage'[t]
           two == second'[t]
           Ahead ==
             /\ (s \in {"refs", "pairA", "pairB", "size"} => IF two THEN Has(b) ELSE Has(a))
             /\ (two /\ a # b => Has(a))
             /\ (s = "pairB" => Points(a, b, job[t].sb, FALSE))
             /\ (s = "pairB" /\ l = "done" => Points(b, a, job[t].sa, TRUE))
             /\ (s = "size" /\ l = "done" /\ side[a].exists => side[a].size = job[t].sa)
             /\ (l = "done" /\ job[t].kind = "dual" => s = IF a = b THEN "size" ELSE "pairB")
<1>4. Ahead => Progress(t)'
  <2>1. (IF two THEN Has(b) ELSE Has(a)) => Has(PassFp(t))'
    BY <1>1 DEF PassFp, Has
  <2>2. Has(a) => Has(a)'
    BY <1>1 DEF Has
  <2>3. Points(a, b, job[t].sb, FALSE) => Points(a, b, job[t].sb, FALSE)'
    BY <1>1 DEF Points
  <2>4. Points(b, a, job[t].sa, TRUE) => Points(b, a, job[t].sa, TRUE)'
    BY <1>1 DEF Points
  <2>5. l # "leave"
    BY <1>2 DEF Follows
  <2> QED
    BY <1>1, <2>1, <2>2, <2>3, <2>4, <2>5 DEF Progress
<1>5. /\ stage[t] \in {"sync", "refs", "pairA", "pairB", "size"}
            => IF second[t] THEN Has(b) ELSE Has(a)
      /\ (second[t] /\ a # b => Has(a))
      /\ (stage[t] \in {"pairA", "pairB"} => Points(a, b, job[t].sb, FALSE))
      /\ (stage[t] = "pairB" => Points(b, a, job[t].sa, TRUE))
      /\ (stage[t] = "size" /\ side[a].exists => side[a].size = job[t].sa)
  BY <1>1 DEF Progress, PassFp
<1> HIDE DEF a, b
<1>6. ASSUME l = "done", s = stage[t], two <=> second[t],
             job[t].kind = "dual" => stage[t] \in {"pairB", "size"}
      PROVE  Ahead
  <2>1. (stage[t] = "pairB" => a # b) /\ (stage[t] = "size" => a = b)
    BY <1>1 DEF Course, a, b
  <2> QED
    BY <1>5, <1>6, <2>1
<1>7. ASSUME l = "enter", s = "refs", two <=> second[t], stage[t] = "sync" PROVE Ahead
  BY <1>5, <1>7
<1>8. ASSUME l = "encode", s = "sync", two, stage[t] \in {"sync", "refs"}, ~second[t] PROVE Ahead
  BY <1>5, <1>8
<1>9. ASSUME l = "enter", two, s = (IF a = b THEN "size" ELSE "pairA"),
             stage[t] \in {"sync", "refs"}, second[t]
      PROVE  Ahead
  BY <1>5, <1>9
<1>10. ASSUME l = "enter", s = "pairB", two <=> second[t], stage[t] = "pairA" PROVE Ahead
  BY <1>5, <1>10
<1>11. \/ /\ l = "done" /\ s = stage[t] /\ (two <=> second[t])
          /\ (job[t].kind = "dual" => stage[t] \in {"pairB", "size"})
       \/ l = "enter" /\ s = "refs" /\ (two <=> second[t]) /\ stage[t] = "sync"
       \/ l = "encode" /\ s = "sync" /\ two /\ stage[t] \in {"sync", "refs"} /\ ~second[t]
       \/ /\ l = "enter" /\ two /\ s = (IF a = b THEN "size" ELSE "pairA")
          /\ stage[t] \in {"sync", "refs"} /\ second[t]
       \/ l = "enter" /\ s = "pairB" /\ (two <=> second[t]) /\ stage[t] = "pairA"
  BY <1>1, <1>2 DEF Follows, a, b
<1> HIDE DEF Ahead, l, s, two
<1> QED
  BY <1>3, <1>4, <1>6, <1>7, <1>8, <1>9, <1>10, <1>11

\* Nor does any other step of the run.
LEMMA NodeGoesOn ==
    ASSUME SideInv, Courses, ~Fault, NEW t \in Nodes, Writing(t), Progress(t),
           \/ \E r \in Requests : Start(t, r)
           \/ Encode(t) \/ Enter(t) \/ CarryUser(t) \/ Return(t)
    PROVE  Writing(t)' /\ Progress(t)'
<1>1. TypeOK /\ t \in Threads /\ Course(t) /\ Target(t) \in Fps /\ t \notin Managers
  BY TargetType, SidecarAssumption DEF SideInv, Threads, Courses
<1>2. CASE (\E r \in Requests : Start(t, r)) \/ Return(t)
  <2>1. pc'[t] \in {"encode", "idle"} /\ stage'[t] = "sync" /\ ~second'[t]
    BY <1>1, <1>2 DEF Start, Return, Go, TypeOK
  <2> QED
    BY <2>1 DEF Writing, Progress
<1>3. CASE Encode(t)
  <2>1. /\ pc'[t] = "enter" /\ stage'[t] = "sync" /\ UNCHANGED <<side, job, second>>
        /\ \A g \in Fps \ {PassFp(t)} : core'[g] = core[g]
    BY <1>1, <1>3 DEF Encode, Go, TypeOK
  <2>2. job[t].a \in Fps /\ (second[t] => PassFp(t) = job[t].b)
    BY <1>1 DEF TypeOK, Jobs, PassFp
  <2>3. second[t] /\ job[t].a # job[t].b => Has(job[t].a)'
    BY <2>1, <2>2 DEF Progress, Has
  <2> QED
    BY <2>1, <2>3 DEF Writing, Progress
<1>4. CASE Enter(t)
  <2>1. /\ pc'[t] \in {"plan", "unlinkCore"} /\ UNCHANGED <<core, side, job, second, stage>>
        /\ pc[t] = "enter"
    BY <1>1, <1>4 DEF Enter, Go, TypeOK, disk
  <2>2. PassFp(t)' = PassFp(t)
    BY <2>1 DEF PassFp
  <2> QED
    BY <2>1, <2>2 DEF Writing, Progress, Has, Points
<1>5. CASE CarryUser(t)
  <2>1. /\ pc'[t] = "write" /\ UNCHANGED <<core, side, job, second, stage>> /\ pc[t] = "user"
    BY <1>1, <1>5 DEF CarryUser, Go, TypeOK, disk
  <2>2. PassFp(t)' = PassFp(t) /\ Target(t)' = Target(t)
    BY <1>1, <2>1, TargetsStay DEF PassFp
  <2>3. PICK v \in {side[Target(t)], NoSide} : plan' = [plan EXCEPT ![t].user = v.user]
    BY <1>5 DEF CarryUser
  <2>4. plan[t] \in Sides /\ plan'[t] = [plan[t] EXCEPT !.user = v.user]
    BY <1>1, <2>3 DEF TypeOK
  <2>5. /\ plan'[t].pair = plan[t].pair /\ plan'[t].pairSize = plan[t].pairSize
        /\ plan'[t].size = plan[t].size /\ plan'[t].upscale = plan[t].upscale
    BY <2>4 DEF Sides
  <2>6. Writing(t)'
    BY <2>1, <2>2, <2>5 DEF Writing
  <2>7. Progress(t)'
    BY <2>1, <2>2 DEF Progress, Has, Points
  <2> QED
    BY <2>6, <2>7
<1> QED
  BY <1>2, <1>3, <1>4, <1>5

\* One thread executes nodes.
OneNode == \A t, u \in Nodes : t = u

\* Then only it, edits and Deletes touch what its run leaves behind.
LEMMA RunsStep ==
    ASSUME OneNode, DualInv, [Next]_vars
    PROVE  Runs'
<1> SUFFICES ASSUME Calm' PROVE Runs'
  BY DEF Runs
<1> SUFFICES ASSUME NEW n \in Nodes PROVE Writing(n)' /\ Progress(n)'
  BY DEF Runs
<1>1. /\ SideInv /\ TypeOK /\ Courses /\ Deleting /\ Unfailed /\ Runs /\ faultsLeft <= MaxFaults
  BY DEF DualInv, SideInv
<1>2. Calm /\ ~Fault
  BY <1>1, FaultsCount
<1>3. Writing(n) /\ Progress(n) /\ n \in Threads /\ n \notin Managers
  BY <1>1, <1>2, SidecarAssumption DEF Runs, Threads
<1>4. CASE Rest \/ UNCHANGED vars
  <2>1. UNCHANGED <<core, side, job, second, stage, pc, plan>>
    BY <1>4 DEF Rest, vars, disk
  <2>2. PassFp(n)' = PassFp(n) /\ Target(n)' = Target(n)
    BY <1>3, <2>1, TargetsStay DEF PassFp
  <2>3. Writing(n)'
    BY <1>3, <2>1, <2>2 DEF Writing
  <2>4. Progress(n)'
    BY <1>3, <2>1, <2>2 DEF Progress, Has, Points
  <2> QED
    BY <2>3, <2>4
<1>5. ASSUME NEW t \in Managers, Step(t) \/ \E r \in Requests : Start(t, r)
      PROVE  Writing(n)' /\ Progress(n)'
  <2>1. Benign
    BY <1>1, <1>2, <1>5, ManagersAreBenign
  <2> QED
    BY <1>1, <1>3, <2>1, BenignKeepsRuns
<1>6. ASSUME Step(n) \/ \E r \in Requests : Start(n, r) PROVE Writing(n)' /\ Progress(n)'
  <2>1. ~EncodeRaises(n) /\ ~EnterTimeout(n)
    BY <1>2, <1>3 DEF EncodeRaises, EnterTimeout
  <2>2. ~UnlinkCore(n) /\ ~UnlinkSide(n) /\ ~UnlinkThumbs(n)
    BY <1>1, <1>3 DEF UnlinkCore, UnlinkSide, UnlinkThumbs, SideInv, Routes, Courses, Course
  <2> QED
    BY <1>1, <1>2, <1>3, <1>6, <2>1, <2>2, NodePlansRight, NodeWritesRight, NodeLeavesRight,
       NodeGoesOn DEF Step
<1>7. ASSUME NEW t \in Threads, Step(t) \/ \E r \in Requests : Start(t, r)
      PROVE  Writing(n)' /\ Progress(n)'
  BY <1>5, <1>6, <1>7 DEF OneNode, Threads
<1> QED
  BY <1>4, <1>7 DEF Next

\* A run changes the roles of its own two entries only, and leaves them different.
LEMMA DifferStep ==
    ASSUME OneNode, DualInv, [Next]_vars
    PROVE  Differ'
<1> SUFFICES ASSUME Calm' PROVE Differ'
  BY DEF Differ
<1>1. /\ SideInv /\ TypeOK /\ Courses /\ Deleting /\ Unfailed /\ Runs /\ Blank /\ NotOwn /\ Differ
      /\ faultsLeft <= MaxFaults
  BY DEF DualInv, SideInv
<1>2. Calm /\ ~Fault
  BY <1>1, FaultsCount
<1>3. ASSUME NEW t \in Managers, Step(t) \/ \E r \in Requests : Start(t, r) PROVE Differ'
  <2>1. Benign
    BY <1>1, <1>2, <1>3, ManagersAreBenign
  <2> QED
    BY <1>1, <1>2, <2>1, BenignKeepsRoles
<1>4. ASSUME UNCHANGED side,
             \A t \in Nodes : \A f, g \in Fps :
                 (Mutual(f, g) /\ Pairing(t, f, g)) =>
                     \/ ~(side[f].upscale <=> side[g].upscale)
                     \/ Pairing(t, f, g)'
      PROVE  Differ'
  BY <1>1, <1>2, <1>4 DEF Differ, Mutual
<1>5. ASSUME UNCHANGED <<side, job, stage>> PROVE Differ'
  BY <1>4, <1>5 DEF Pairing
<1>6. ASSUME NEW n \in Nodes, Step(n) \/ \E r \in Requests : Start(n, r) PROVE Differ'
  <2>1. /\ n \in Threads /\ n \notin Managers /\ Course(n) /\ Writing(n) /\ Progress(n)
        /\ \A t \in Nodes : t = n
    BY <1>1, <1>2, SidecarAssumption DEF Threads, Courses, Runs, OneNode
  <2>2. CASE \/ EncodeRaises(n) \/ Enter(n) \/ EnterTimeout(n) \/ PlanSection(n) \/ CarryUser(n)
             \/ UnlinkCore(n) \/ UnlinkThumbs(n)
    BY <1>5, <2>2 DEF EncodeRaises, Enter, EnterTimeout, PlanSection, CarryUser, UnlinkCore,
       UnlinkThumbs, UnlinkFails, disk
  <2>3. CASE UnlinkSide(n)
    BY <1>1, <2>1, <2>3 DEF UnlinkSide, SideInv, Routes, Course
  <2>4. CASE Encode(n) \/ \E r \in Requests : Start(n, r)
    <3>1. side' = side /\ stage[n] = "sync"
      BY <2>1, <2>4 DEF Encode, Start, disk, Course
    <3> QED
      BY <1>4, <2>1, <3>1 DEF Pairing
  <2>5. CASE Leave(n)
    <3>1. /\ side' = side /\ job' = job /\ pc[n] = "leave"
          /\ pc'[n] = After(n)[1] /\ stage'[n] = After(n)[2] /\ second'[n] = After(n)[3]
      BY <1>1, <1>2, <2>1, <2>5 DEF Leave, Go, TypeOK, disk, Unfailed
    <3>2. Follows(n, pc'[n], stage'[n], second'[n])
      BY <1>1, <2>1, <3>1, AfterCourse
    <3>3. stage[n] \in {"pairA", "pairB"} => stage'[n] \in {"pairA", "pairB"}
      BY <3>2 DEF Follows
    <3> QED
      BY <1>4, <2>1, <3>1, <3>3 DEF Pairing
  <2>6. CASE Return(n)
    <3>1. side' = side /\ pc[n] = "done"
      BY <2>6 DEF Return, disk
    <3>2. ASSUME NEW f \in Fps, NEW g \in Fps, Mutual(f, g), Pairing(n, f, g)
          PROVE  ~(side[f].upscale <=> side[g].upscale)
      <4>1. stage[n] \in {"pairA", "pairB"} /\ {f, g} = {job[n].a, job[n].b}
        BY <3>2 DEF Pairing
      <4>2. job[n].kind = "dual" /\ job[n].a # job[n].b
        BY <2>1, <4>1 DEF Course
      <4>3. stage[n] = "pairB"
        BY <2>1, <3>1, <4>1, <4>2 DEF Progress
      <4>4. NoSide.pair \notin Fps
        BY SidecarAssumption DEF NoSide
      <4>5. side[f].exists /\ side[g].exists
        BY <1>1, <3>2, <4>4 DEF Blank, Mutual
      <4>6. /\ side[job[n].a].exists => ~side[job[n].a].upscale
            /\ side[job[n].b].exists => side[job[n].b].upscale
        BY <2>1, <3>1, <4>3 DEF Progress, Points
      <4>7. (f = job[n].a /\ g = job[n].b) \/ (f = job[n].b /\ g = job[n].a)
        BY <4>1, <4>2
      <4> QED
        BY <4>5, <4>6, <4>7
    <3> QED
      BY <1>4, <2>1, <3>1, <3>2
  <2>7. CASE Write(n)
    <3> DEFINE w == Target(n)
    <3>1. /\ w \in Fps /\ pc[n] = "write" /\ UNCHANGED <<job, stage>>
          /\ side' = [side EXCEPT ![w] = plan[n]]
      BY <1>1, <1>2, <2>1, <2>7, TargetType DEF Write
    <3>2. side'[w] = plan[n] /\ \A g \in Fps \ {w} : side'[g] = side[g]
      BY <1>1, <3>1 DEF TypeOK
    <3>3. /\ stage[n] = "pairA" => w = job[n].a /\ plan[n].pair = job[n].b
          /\ stage[n] = "pairB" => w = job[n].b /\ plan[n].pair = job[n].a
          /\ stage[n] \notin {"pairA", "pairB"} =>
                plan[n].pair = side[w].pair /\ (plan[n].upscale <=> side[w].upscale)
      BY <2>1, <3>1 DEF Writing, Target
    <3> HIDE DEF w
    <3>4. ASSUME NEW f \in Fps, NEW g \in Fps, Mutual(f, g)'
          PROVE  \/ ~(side'[f].upscale <=> side'[g].upscale)
                 \/ \E t \in Nodes : Pairing(t, f, g)'
      <4>1. f # g /\ side'[f].pair = g /\ side'[g].pair = f
        BY <3>4 DEF Mutual
      <4>2. CASE stage[n] \in {"pairA", "pairB"} /\ w \in {f, g}
        <5>1. {f, g} = {job[n].a, job[n].b}
          BY <3>2, <3>3, <4>1, <4>2
        <5>2. Pairing(n, f, g)'
          BY <3>1, <4>2, <5>1 DEF Pairing
        <5> QED
          BY <5>2
      <4>3. CASE ~(stage[n] \in {"pairA", "pairB"} /\ w \in {f, g})
        <5>1. /\ side'[f].pair = side[f].pair /\ (side'[f].upscale <=> side[f].upscale)
              /\ side'[g].pair = side[g].pair /\ (side'[g].upscale <=> side[g].upscale)
          BY <3>2, <3>3, <4>3
        <5>2. Mutual(f, g)
          BY <4>1, <5>1 DEF Mutual
        <5>3. ASSUME NEW t \in Nodes, Pairing(t, f, g) PROVE Pairing(t, f, g)'
          BY <3>1, <5>3 DEF Pairing
        <5> QED
          BY <1>1, <1>2, <5>1, <5>2, <5>3 DEF Differ
      <4> QED
        BY <4>2, <4>3
    <3>5. \A f, g \in Fps :
             Mutual(f, g)' => \/ ~(side'[f].upscale <=> side'[g].upscale)
                              \/ \E t \in Nodes : Pairing(t, f, g)'
      BY <3>4
    <3> QED
      BY <3>5 DEF Differ, Mutual, Pairing
  <2> QED
    BY <1>6, <2>2, <2>3, <2>4, <2>5, <2>6, <2>7 DEF Step
<1>7. CASE Rest \/ UNCHANGED vars
  BY <1>5, <1>7 DEF Rest, vars, disk
<1> QED
  BY <1>3, <1>6, <1>7 DEF Next, Threads

-----------------------------------------------------------------------------
(* Theorem.                                                                *)

\* Before the first request nothing is paired.
LEMMA DualInvInit == Init => DualInv
<1> SUFFICES ASSUME Init PROVE DualInv
  OBVIOUS
<1>1. SideInv /\ faultsLeft <= MaxFaults
  <2>1. faultsLeft = MaxFaults /\ MaxFaults \in Nat
    BY SidecarAssumption DEF Init
  <2> QED
    BY <2>1, SideInvInit
<1>2. PICK described \in SUBSET Fps : side = [f \in Fps |-> [NoSide EXCEPT !.exists = f \in described]]
  BY DEF Init
<1>3. ASSUME NEW f \in Fps
      PROVE  side[f].pair = NoFp /\ (~side[f].exists => side[f] = NoSide)
  <2> DEFINE With(e) == [NoSide EXCEPT !.exists = e]
  <2>1. side[f] = With(f \in described)
    BY <1>2
  <2> HIDE DEF With
  <2>2. (f \in described) = TRUE \/ (f \in described) = FALSE
    OBVIOUS
  <2>3. PICK e \in BOOLEAN : side[f] = With(e)
    BY <2>1, <2>2
  <2>4. side[f] = [NoSide EXCEPT !.exists = e]
    BY <2>3 DEF With
  <2>5. side[f].pair = NoFp /\ side[f].exists = e
    BY <2>4 DEF NoSide
  <2>6. ASSUME NEW v \in Sides PROVE [v EXCEPT !.exists = v.exists] = v
    BY DEF Sides
  <2>7. NoSide \in Sides /\ NoSide.exists = FALSE
    BY NoSideIsSide DEF NoSide
  <2>8. [NoSide EXCEPT !.exists = FALSE] = NoSide
    BY <2>6, <2>7
  <2> QED
    BY <2>4, <2>5, <2>8
<1>4. Courses /\ Deleting /\ Unfailed
  BY DEF Init, Courses, Course, Deleting, Unfailed, Threads, SectionPcs
<1>5. Blank /\ NotOwn /\ Differ
  <2>1. \A t \in Threads : pc[t] = "idle"
    BY DEF Init
  <2>2. \A f, g \in Fps : side[f].pair # g
    BY <1>3, SidecarAssumption
  <2>3. Blank
    BY <1>3 DEF Blank
  <2> QED
    BY <2>1, <2>2, <2>3 DEF NotOwn, Differ, Mutual
<1>6. Runs
  BY DEF Init, Runs, Writing, Progress, Threads
<1> QED
  BY <1>1, <1>4, <1>5, <1>6 DEF DualInv

\* No step leaves it.
LEMMA DualInvStep ==
    ASSUME OneNode, DualInv, [Next]_vars
    PROVE  DualInv'
<1>1. SideInv' /\ Runs' /\ Differ'
  BY SideInvStep, RunsStep, DifferStep DEF DualInv
<1>2. /\ SideInv /\ TypeOK /\ Holding /\ Routes /\ Plans /\ faultsLeft <= MaxFaults
      /\ Courses /\ Deleting /\ Blank /\ NotOwn /\ Unfailed
  BY DEF DualInv, SideInv
<1>3. faultsLeft' <= MaxFaults
  BY <1>2, FaultsCount
<1>4. Courses' /\ Deleting' /\ Blank' /\ NotOwn' /\ Unfailed'
  BY <1>2, CoursesStep, DeletingStep, BlankStep, NotOwnStep, UnfailedStep
<1> QED
  BY <1>1, <1>3, <1>4 DEF DualInv

\* The invariant says what dual runs leave behind.
LEMMA DualInvAgrees == DualInv => DualRunsAgree
<1> SUFFICES ASSUME DualInv PROVE DualRunsAgree
  OBVIOUS
<1>1. TypeOK /\ Courses /\ Blank /\ NotOwn /\ (Calm => Runs /\ Differ) /\ Nodes \subseteq Threads
  BY DEF DualInv, SideInv, Threads
<1>2. \A t \in Nodes : job[t].a \in Fps /\ job[t].b \in Fps
  BY <1>1 DEF TypeOK, Jobs
<1>3. PairedAfterDual
  <2> SUFFICES ASSUME NEW t \in Nodes, pc[t] = "done", job[t].kind = "dual", job[t].a # job[t].b,
                      Calm, core[job[t].a] # 0, core[job[t].b] # 0
               PROVE  /\ side[job[t].a].pair = job[t].b /\ side[job[t].a].pairSize = job[t].sb
                      /\ ~side[job[t].a].upscale
                      /\ side[job[t].b].pair = job[t].a /\ side[job[t].b].pairSize = job[t].sa
                      /\ side[job[t].b].upscale
    BY DEF PairedAfterDual, Calm
  <2>1. Course(t) /\ Progress(t)
    BY <1>1 DEF Courses, Runs
  <2>2. stage[t] = "pairB"
    BY <2>1 DEF Progress
  <2>3. second[t]
    BY <2>1, <2>2 DEF Course
  <2>4. side[job[t].a].exists /\ side[job[t].b].exists
    BY <2>1, <2>2, <2>3 DEF Progress, Has, PassFp
  <2> QED
    BY <2>1, <2>2, <2>4 DEF Progress, Points
<1>4. SharedEntryKeepsBase
  <2> SUFFICES ASSUME NEW t \in Nodes, pc[t] = "done", job[t].kind = "dual", job[t].a = job[t].b,
                      Calm, core[job[t].a] # 0
               PROVE  side[job[t].a].size = job[t].sa /\ side[job[t].a].pair # job[t].a
    BY DEF SharedEntryKeepsBase, Calm
  <2>1. Progress(t)
    BY <1>1 DEF Runs
  <2>2. stage[t] = "size" /\ PassFp(t) = job[t].a
    BY <2>1 DEF Progress, PassFp
  <2>3. side[job[t].a].exists
    BY <2>1, <2>2 DEF Progress, Has
  <2> QED
    BY <1>1, <1>2, <2>1, <2>2, <2>3 DEF Progress, NotOwn
<1>5. MutualRolesDiffer
  <2> SUFFICES ASSUME Calm, \A t \in Nodes : stage[t] \in {"pairA", "pairB"} => pc[t] = "idle",
                      NEW f \in Fps, NEW g \in Fps, f # g, side[f].pair = g, side[g].pair = f
               PROVE  side[f].upscale # side[g].upscale
    BY DEF MutualRolesDiffer, Calm
  <2>1. \A t \in Nodes : ~Pairing(t, f, g)
    BY <1>1 DEF Courses, Course, Pairing
  <2>2. ~(side[f].upscale <=> side[g].upscale)
    BY <1>1, <2>1 DEF Differ, Mutual
  <2> QED
    BY <2>2
<1> QED
  BY <1>3, <1>4, <1>5 DEF DualRunsAgree

\* With one prompt worker and no failing call, a dual run whose entries survive
\* leaves them pointing at each other in different roles, or an entry both passes
\* share with its base size, whatever runs, edits and Deletes came before and
\* between its sections (nodes.py: _pair_verbose_entries).
THEOREM DualRunsLeavePairs ==
    ASSUME \A t, u \in Nodes : t = u
    PROVE  Spec => []DualRunsAgree
<1>1. OneNode
  BY DEF OneNode
<1>2. DualInv /\ [Next]_vars => DualInv'
  BY <1>1, DualInvStep
<1> QED
  BY <1>2, DualInvInit, DualInvAgrees, PTL DEF Spec
=============================================================================
