-------------------------- MODULE Freshness_proofs --------------------------
(***************************************************************************)
(* Theorems about Freshness, for any contents of the embedding file and    *)
(* any number of runs, changes and faults.  The invariant relates what an  *)
(* encode is kept under (its key in the disk cache, its signature in the   *)
(* executor's) to what it was made of, in the caches and in the run at     *)
(* hand, once for each of the three things an encode depends on: the       *)
(* checkpoint, the implementation and the embedding.                       *)
(***************************************************************************)
EXTENDS Freshness, TLAPS

\* The parts of TypeOK.
WorldTypes ==
    /\ ckpt \in Nat /\ there \in BOOLEAN /\ emb \in Contents \cup {NoEmb}
    /\ source \in Nat /\ code \in Nat
    /\ abi \in [state : {"unread", "unavailable", "known"}, id : Nat]
    /\ tok \in {"unread", "unavailable", "built"}
    /\ runsLeft \in Nat /\ changesLeft \in Nat /\ faultsLeft \in Nat
RunTypes ==
    /\ pc \in Pcs /\ mode \in {"auto", "refresh"}
    /\ sig \in Signatures /\ key \in Identities /\ made \in Identities
    /\ origin \in {"none", "memo", "hit", "encode"}
CacheTypes ==
    /\ store \subseteq [key : Identities, made : Identities]
    /\ \A e, d \in store : e.key = d.key => e = d
    /\ memo \in [sig : Signatures, made : Identities]
HistoryTypes ==
    /\ since \in Nat /\ seen \subseteq Contents \cup {NoEmb}
    /\ mixed \in BOOLEAN /\ swapped \in BOOLEAN /\ unresolved \in BOOLEAN

AfterStat == {"abi", "key", "lookup", "load", "encode", "save"}
AfterAbi == {"key", "lookup", "load", "encode", "save"}
AfterKey == {"lookup", "load", "encode"}
Made == {"save", "done"}

\* A forced run takes no signature: it can neither match the memo nor be kept
\* in it.
Signs ==
    /\ memo.sig.nan => memo.sig.id = Nothing
    /\ sig.nan => sig.id = Nothing
    /\ mode = "refresh" => sig.nan /\ pc \notin {"sigAbi", "sigEmb", "sigStat"}
    /\ pc \in {"idle", "sigAbi", "sigEmb"} => sig.nan
    /\ pc = "sigStat" => ~sig.nan
    /\ origin # "none" => pc \in {"save", "done"}

\* No file is read before the run that uses it, and none is read in the future.
\* The stat that names an encode precedes the load that makes it.
Ages ==
    /\ \A e \in store : e.key.ckpt <= e.made.ckpt
    /\ memo.sig.id.ckpt <= memo.made.ckpt
    /\ since <= ckpt
    /\ (pc = "compare" /\ ~sig.nan) => since <= sig.id.ckpt
    /\ sig.id.ckpt <= ckpt
    /\ pc \in AfterStat => sig.id.ckpt <= key.ckpt /\ since <= key.ckpt /\ key.ckpt <= ckpt
    /\ pc \in {"encode", "save"} => key.ckpt <= made.ckpt
    /\ pc = "done" => sig.id.ckpt <= made.ckpt /\ since <= made.ckpt

\* The identity of an implementation is its code, unless its source was replaced
\* before it was read; the identity 0 belongs to none and answers nobody.
Implementations ==
    /\ code > 0 /\ source > 0
    /\ abi.state = "known" => abi.id > 0
    /\ abi.state # "known" => abi.id = 0
    /\ (abi.state = "known" /\ ~mixed) => abi.id = code
    /\ ~mixed => \A e \in store : e.key.abi > 0 => e.made.abi = e.key.abi
    /\ ~memo.sig.nan => abi.state = "known" /\ (~mixed => memo.made.abi = code)
    /\ (~sig.nan \/ pc \in {"sigEmb", "sigStat"}) => abi.state = "known"
    /\ pc \in AfterAbi => key.abi = abi.id /\ abi.state # "unread"
    /\ pc = "save" => origin = "encode" /\ made.abi = code
    /\ (pc = "done" /\ origin # "encode") =>
          mode = "auto" /\ abi.state = "known" /\ (~mixed => made.abi = code)
    /\ (pc = "done" /\ origin = "encode") => made.abi = code

\* As long as no embedding changed between being read and being used, and none
\* failed to resolve, what an encode is kept under names the embedding in it.
Embeddings ==
    /\ pc # "idle" => emb \in seen
    /\ (~swapped /\ ~unresolved) =>
          /\ \A e \in store : e.key.emb = e.made.emb
          /\ ~memo.sig.nan => memo.sig.id.emb = memo.made.emb
          /\ (~sig.nan /\ pc \notin Made) => sig.id.emb = emb
          /\ pc \in AfterKey => key.emb = emb
          /\ pc = "save" => key.emb = made.emb
          /\ pc \in Made => made.emb \in seen /\ (~sig.nan => sig.id.emb = made.emb)

FreshInv == TypeOK /\ Signs /\ Ages /\ Implementations /\ Embeddings

-----------------------------------------------------------------------------
(* FreshInv is inductive.                                                   *)

\* What nothing and nobody's signature are.
LEMMA Blanks ==
    Nothing \in Identities /\ NaN \in Signatures /\ NoMemo \in [sig : Signatures, made : Identities]
<1>1. Nothing \in Identities
  BY FreshnessAssumption DEF Nothing, Identities
<1>2. NaN \in Signatures
  BY <1>1 DEF NaN, Signatures
<1> QED
  BY <1>1, <1>2 DEF NoMemo

\* The files, the process and the budgets keep their types ...
LEMMA WorldTypesStep ==
    ASSUME TypeOK, [Next]_vars
    PROVE  WorldTypes'
<1> USE FreshnessAssumption DEF TypeOK, WorldTypes, Unread, Unavailable, Known, vars, world, session, run, history, budget, Fault
<1>1. ASSUME NEW m \in {"auto", "refresh"}, Queue(m) PROVE WorldTypes'
  BY <1>1 DEF Queue
<1>2. CASE SigAbi
  BY <1>2 DEF SigAbi, GetAbi
<1>3. CASE SigEmb
  BY <1>3 DEF SigEmb, Resolve
<1>4. CASE SigStat
  BY <1>4 DEF SigStat
<1>5. CASE Compare
  BY <1>5 DEF Compare
<1>6. CASE Stat
  BY <1>6 DEF Stat, Raise, Reset
<1>7. CASE Abi
  BY <1>7 DEF Abi, GetAbi
<1>8. CASE Key
  BY <1>8 DEF Key, Resolve
<1>9. CASE Lookup
  BY <1>9 DEF Lookup, Forced
<1>10. CASE Load
  BY <1>10 DEF Load, Raise, Reset
<1>11. CASE Encode
  BY <1>11 DEF Encode, Raise, Reset
<1>12. CASE Save
  BY <1>12 DEF Save
<1>13. CASE Done
  BY <1>13 DEF Done, Reset
<1>14. CASE ReplaceCkpt
  BY <1>14 DEF ReplaceCkpt, Change
<1>15. CASE RemoveCkpt
  <2>1. there' \in BOOLEAN
    BY <1>15, Zenon DEF RemoveCkpt
  <2>2. changesLeft' \in Nat
    BY <1>15 DEF RemoveCkpt, Change
  <2> QED
    BY <2>1, <2>2, <1>15 DEF RemoveCkpt, Change
<1>16. ASSUME NEW e \in Contents \cup {NoEmb}, SwapEmb(e) PROVE WorldTypes'
  BY <1>16 DEF SwapEmb, Change
<1>17. CASE UpdateSource
  BY <1>17 DEF UpdateSource, Change
<1>18. CASE Restart
  BY <1>18 DEF Restart, Reset, Change
<1>19. CASE Rest \/ UNCHANGED vars
  BY <1>19 DEF Rest
<1> HIDE DEF WorldTypes
<1> QED
  BY <1>1, <1>2, <1>3, <1>4, <1>5, <1>6, <1>7, <1>8, <1>9, <1>10, <1>11, <1>12, <1>13, <1>14, <1>15, <1>16, <1>17, <1>18, <1>19 DEF Next, Run, World

\* ... so does the run at hand ...
LEMMA RunTypesStep ==
    ASSUME TypeOK, [Next]_vars
    PROVE  RunTypes'
<1> USE FreshnessAssumption, Blanks DEF TypeOK, RunTypes, Pcs, Known, Unavailable, Unread, Identities, Signatures, vars, world, session, run, history, budget, Fault
<1>1. ASSUME NEW m \in {"auto", "refresh"}, Queue(m) PROVE RunTypes'
  BY <1>1 DEF Queue
<1>2. CASE SigAbi
  BY <1>2 DEF SigAbi, GetAbi
<1>3. CASE SigEmb
  BY <1>3 DEF SigEmb, Resolve
<1>4. CASE SigStat
  BY <1>4 DEF SigStat
<1>5. CASE Compare
  BY <1>5 DEF Compare
<1>6. CASE Stat
  BY <1>6 DEF Stat, Raise, Reset
<1>7. CASE Abi
  BY <1>7 DEF Abi, GetAbi
<1>8. CASE Key
  BY <1>8 DEF Key, Resolve
<1>9. CASE Lookup
  BY <1>9 DEF Lookup, Forced
<1>10. CASE Load
  BY <1>10 DEF Load, Raise, Reset
<1>11. CASE Encode
  <2>1. made' \in Identities
    <3>1. [made EXCEPT !.emb = emb, !.abi = code] \in Identities
      OBVIOUS
    <3>2. CASE Raise
      BY <3>2 DEF Raise, Reset
    <3> QED
      BY <3>1, <3>2, <1>11 DEF Encode
  <2> QED
    BY <2>1, <1>11 DEF Encode, Raise, Reset
<1>12. CASE Save
  BY <1>12 DEF Save
<1>13. CASE Done
  BY <1>13 DEF Done, Reset
<1>14. CASE ReplaceCkpt
  BY <1>14 DEF ReplaceCkpt, Change
<1>15. CASE RemoveCkpt
  BY <1>15 DEF RemoveCkpt, Change
<1>16. ASSUME NEW e \in Contents \cup {NoEmb}, SwapEmb(e) PROVE RunTypes'
  BY <1>16 DEF SwapEmb, Change
<1>17. CASE UpdateSource
  BY <1>17 DEF UpdateSource, Change
<1>18. CASE Restart
  BY <1>18 DEF Restart, Reset, Change
<1>19. CASE Rest \/ UNCHANGED vars
  BY <1>19 DEF Rest
<1> HIDE DEF RunTypes
<1> QED
  BY <1>1, <1>2, <1>3, <1>4, <1>5, <1>6, <1>7, <1>8, <1>9, <1>10, <1>11, <1>12, <1>13, <1>14, <1>15, <1>16, <1>17, <1>18, <1>19 DEF Next, Run, World

\* ... and so do the two caches, one encode to a fingerprint.
LEMMA CacheTypesStep ==
    ASSUME TypeOK, [Next]_vars
    PROVE  CacheTypes'
<1> USE FreshnessAssumption, Blanks DEF TypeOK, CacheTypes, vars, world, session, run, history, budget, Fault
<1>1. ASSUME NEW m \in {"auto", "refresh"}, Queue(m) PROVE CacheTypes'
  BY <1>1 DEF Queue
<1>2. CASE SigAbi
  BY <1>2 DEF SigAbi, GetAbi
<1>3. CASE SigEmb
  BY <1>3 DEF SigEmb, Resolve
<1>4. CASE SigStat
  BY <1>4 DEF SigStat
<1>5. CASE Compare
  BY <1>5 DEF Compare
<1>6. CASE Stat
  BY <1>6 DEF Stat, Raise, Reset
<1>7. CASE Abi
  BY <1>7 DEF Abi, GetAbi
<1>8. CASE Key
  BY <1>8 DEF Key, Resolve
<1>9. CASE Lookup
  BY <1>9 DEF Lookup, Forced
<1>10. CASE Load
  BY <1>10 DEF Load, Raise, Reset
<1>11. CASE Encode
  BY <1>11 DEF Encode, Raise, Reset
<1>12. CASE Save
  BY <1>12 DEF Save
<1>13. CASE Done
  BY <1>13 DEF Done, Reset
<1>14. CASE ReplaceCkpt
  BY <1>14 DEF ReplaceCkpt, Change
<1>15. CASE RemoveCkpt
  BY <1>15 DEF RemoveCkpt, Change
<1>16. ASSUME NEW e \in Contents \cup {NoEmb}, SwapEmb(e) PROVE CacheTypes'
  BY <1>16 DEF SwapEmb, Change
<1>17. CASE UpdateSource
  BY <1>17 DEF UpdateSource, Change
<1>18. CASE Restart
  BY <1>18 DEF Restart, Reset, Change
<1>19. CASE Rest \/ UNCHANGED vars
  BY <1>19 DEF Rest
<1> HIDE DEF CacheTypes
<1> QED
  BY <1>1, <1>2, <1>3, <1>4, <1>5, <1>6, <1>7, <1>8, <1>9, <1>10, <1>11, <1>12, <1>13, <1>14, <1>15, <1>16, <1>17, <1>18, <1>19 DEF Next, Run, World

\* The history of a run keeps its type.
LEMMA HistoryTypesStep ==
    ASSUME TypeOK, [Next]_vars
    PROVE  HistoryTypes'
<1> USE FreshnessAssumption DEF TypeOK, HistoryTypes, vars, world, session, run, history, budget, Fault
<1>1. ASSUME NEW m \in {"auto", "refresh"}, Queue(m) PROVE HistoryTypes'
  BY <1>1 DEF Queue
<1>2. CASE SigAbi
  BY <1>2 DEF SigAbi, GetAbi
<1>3. CASE SigEmb
  BY <1>3 DEF SigEmb, Resolve
<1>4. CASE SigStat
  BY <1>4 DEF SigStat
<1>5. CASE Compare
  BY <1>5 DEF Compare
<1>6. CASE Stat
  BY <1>6 DEF Stat, Raise, Reset
<1>7. CASE Abi
  BY <1>7 DEF Abi, GetAbi
<1>8. CASE Key
  BY <1>8 DEF Key, Resolve
<1>9. CASE Lookup
  BY <1>9 DEF Lookup, Forced
<1>10. CASE Load
  BY <1>10 DEF Load, Raise, Reset
<1>11. CASE Encode
  BY <1>11 DEF Encode, Raise, Reset
<1>12. CASE Save
  BY <1>12 DEF Save
<1>13. CASE Done
  BY <1>13 DEF Done, Reset
<1>14. CASE ReplaceCkpt
  BY <1>14 DEF ReplaceCkpt, Change
<1>15. CASE RemoveCkpt
  BY <1>15 DEF RemoveCkpt, Change
<1>16. ASSUME NEW e \in Contents \cup {NoEmb}, SwapEmb(e) PROVE HistoryTypes'
  BY <1>16 DEF SwapEmb, Change
<1>17. CASE UpdateSource
  BY <1>17 DEF UpdateSource, Change
<1>18. CASE Restart
  BY <1>18 DEF Restart, Reset, Change
<1>19. CASE Rest \/ UNCHANGED vars
  BY <1>19 DEF Rest
<1> HIDE DEF HistoryTypes
<1> QED
  BY <1>1, <1>2, <1>3, <1>4, <1>5, <1>6, <1>7, <1>8, <1>9, <1>10, <1>11, <1>12, <1>13, <1>14, <1>15, <1>16, <1>17, <1>18, <1>19 DEF Next, Run, World

\* Every step keeps every variable in its type.
LEMMA TypeStep ==
    ASSUME TypeOK, [Next]_vars
    PROVE  TypeOK'
<1>1. WorldTypes' /\ RunTypes' /\ CacheTypes' /\ HistoryTypes'
  BY WorldTypesStep, RunTypesStep, CacheTypesStep, HistoryTypesStep
<1> QED
  BY <1>1 DEF TypeOK, WorldTypes, RunTypes, CacheTypes, HistoryTypes

\* A forced run is never given a signature.
LEMMA SignsStep ==
    ASSUME TypeOK, Signs, [Next]_vars
    PROVE  Signs'
<1> USE FreshnessAssumption DEF TypeOK, Signs, Unread, Unavailable, Known, Identities, Nothing, NaN, Signatures, NoMemo, vars, world, session, run, history, budget, Fault
<1>1. ASSUME NEW m \in {"auto", "refresh"}, Queue(m) PROVE Signs'
  BY <1>1 DEF Queue
<1>2. CASE SigAbi
  BY <1>2 DEF SigAbi, GetAbi
<1>3. CASE SigEmb
  BY <1>3 DEF SigEmb, Resolve
<1>4. CASE SigStat
  BY <1>4 DEF SigStat
<1>5. CASE Compare
  BY <1>5 DEF Compare
<1>6. CASE Stat
  BY <1>6 DEF Stat, Raise, Reset
<1>7. CASE Abi
  BY <1>7 DEF Abi, GetAbi
<1>8. CASE Key
  BY <1>8 DEF Key, Resolve
<1>9. CASE Lookup
  BY <1>9 DEF Lookup, Forced
<1>10. CASE Load
  BY <1>10 DEF Load, Raise, Reset
<1>11. CASE Encode
  BY <1>11 DEF Encode, Raise, Reset
<1>12. CASE Save
  BY <1>12 DEF Save
<1>13. CASE Done
  BY <1>13 DEF Done, Reset
<1>14. CASE ReplaceCkpt
  BY <1>14 DEF ReplaceCkpt, Change
<1>15. CASE RemoveCkpt
  BY <1>15 DEF RemoveCkpt, Change
<1>16. ASSUME NEW e \in Contents \cup {NoEmb}, SwapEmb(e) PROVE Signs'
  BY <1>16 DEF SwapEmb, Change
<1>17. CASE UpdateSource
  BY <1>17 DEF UpdateSource, Change
<1>18. CASE Restart
  BY <1>18 DEF Restart, Reset, Change
<1>19. CASE Rest \/ UNCHANGED vars
  BY <1>19 DEF Rest
<1> HIDE DEF Signs
<1> QED
  BY <1>1, <1>2, <1>3, <1>4, <1>5, <1>6, <1>7, <1>8, <1>9, <1>10, <1>11, <1>12, <1>13, <1>14, <1>15, <1>16, <1>17, <1>18, <1>19 DEF Next, Run, World

\* No step makes an encode older than what names it.
LEMMA AgesStep ==
    ASSUME TypeOK, Signs, Ages, [Next]_vars
    PROVE  Ages'
<1> USE FreshnessAssumption DEF TypeOK, Signs, Ages, AfterStat, Unread, Unavailable, Known, Identities, Nothing, NaN, Signatures, NoMemo, vars, world, session, run, history, budget, Fault
<1>1. ASSUME NEW m \in {"auto", "refresh"}, Queue(m) PROVE Ages'
  BY <1>1 DEF Queue
<1>2. CASE SigAbi
  BY <1>2 DEF SigAbi, GetAbi
<1>3. CASE SigEmb
  BY <1>3 DEF SigEmb, Resolve
<1>4. CASE SigStat
  BY <1>4 DEF SigStat
<1>5. CASE Compare
  BY <1>5 DEF Compare
<1>6. CASE Stat
  BY <1>6 DEF Stat, Raise, Reset
<1>7. CASE Abi
  BY <1>7 DEF Abi, GetAbi
<1>8. CASE Key
  BY <1>8 DEF Key, Resolve
<1>9. CASE Lookup
  BY <1>9 DEF Lookup, Forced
<1>10. CASE Load
  BY <1>10 DEF Load, Raise, Reset
<1>11. CASE Encode
  <2>1. CASE made' = [made EXCEPT !.emb = emb, !.abi = code] /\ pc' = "save"
    <3>1. made'.ckpt = made.ckpt
      BY <2>1
    <3> QED
      BY <2>1, <3>1, <1>11 DEF Encode, Raise, Reset
  <2>2. CASE Raise
    BY <2>2, <1>11 DEF Encode, Raise, Reset
  <2> QED
    BY <2>1, <2>2, <1>11 DEF Encode
<1>12. CASE Save
  BY <1>12 DEF Save
<1>13. CASE Done
  BY <1>13 DEF Done, Reset
<1>14. CASE ReplaceCkpt
  BY <1>14 DEF ReplaceCkpt, Change
<1>15. CASE RemoveCkpt
  BY <1>15 DEF RemoveCkpt, Change
<1>16. ASSUME NEW e \in Contents \cup {NoEmb}, SwapEmb(e) PROVE Ages'
  BY <1>16 DEF SwapEmb, Change
<1>17. CASE UpdateSource
  BY <1>17 DEF UpdateSource, Change
<1>18. CASE Restart
  BY <1>18 DEF Restart, Reset, Change
<1>19. CASE Rest \/ UNCHANGED vars
  BY <1>19 DEF Rest
<1> HIDE DEF Ages
<1> QED
  BY <1>1, <1>2, <1>3, <1>4, <1>5, <1>6, <1>7, <1>8, <1>9, <1>10, <1>11, <1>12, <1>13, <1>14, <1>15, <1>16, <1>17, <1>18, <1>19 DEF Next, Run, World

\* An identity that was read as imported names the code until the restart.
LEMMA ImplementationsStep ==
    ASSUME TypeOK, Signs, Implementations, [Next]_vars
    PROVE  Implementations'
<1> USE FreshnessAssumption DEF TypeOK, Signs, Implementations, AfterAbi, Unread, Unavailable, Known, Identities, Nothing, NaN, Signatures, NoMemo, vars, world, session, run, history, budget, Fault
<1>1. ASSUME NEW m \in {"auto", "refresh"}, Queue(m) PROVE Implementations'
  BY <1>1 DEF Queue
<1>2. CASE SigAbi
  BY <1>2 DEF SigAbi, GetAbi
<1>3. CASE SigEmb
  BY <1>3 DEF SigEmb, Resolve
<1>4. CASE SigStat
  BY <1>4 DEF SigStat
<1>5. CASE Compare
  BY <1>5 DEF Compare
<1>6. CASE Stat
  BY <1>6 DEF Stat, Raise, Reset
<1>7. CASE Abi
  BY <1>7 DEF Abi, GetAbi
<1>8. CASE Key
  BY <1>8 DEF Key, Resolve
<1>9. CASE Lookup
  BY <1>9 DEF Lookup, Forced
<1>10. CASE Load
  BY <1>10 DEF Load, Raise, Reset
<1>11. CASE Encode
  BY <1>11 DEF Encode, Raise, Reset
<1>12. CASE Save
  BY <1>12 DEF Save
<1>13. CASE Done
  BY <1>13 DEF Done, Reset
<1>14. CASE ReplaceCkpt
  BY <1>14 DEF ReplaceCkpt, Change
<1>15. CASE RemoveCkpt
  BY <1>15 DEF RemoveCkpt, Change
<1>16. ASSUME NEW e \in Contents \cup {NoEmb}, SwapEmb(e) PROVE Implementations'
  BY <1>16 DEF SwapEmb, Change
<1>17. CASE UpdateSource
  BY <1>17 DEF UpdateSource, Change
<1>18. CASE Restart
  BY <1>18 DEF Restart, Reset, Change
<1>19. CASE Rest \/ UNCHANGED vars
  BY <1>19 DEF Rest
<1> HIDE DEF Implementations
<1> QED
  BY <1>1, <1>2, <1>3, <1>4, <1>5, <1>6, <1>7, <1>8, <1>9, <1>10, <1>11, <1>12, <1>13, <1>14, <1>15, <1>16, <1>17, <1>18, <1>19 DEF Next, Run, World

\* An embedding changing under a run shows in the history.
LEMMA EmbeddingsStep ==
    ASSUME TypeOK, Signs, Embeddings, [Next]_vars
    PROVE  Embeddings'
<1> USE FreshnessAssumption DEF TypeOK, Signs, Embeddings, AfterKey, Made, Pcs, Unread, Unavailable, Known, Identities, Nothing, NaN, Signatures, NoMemo, vars, world, session, run, history, budget, Fault
<1>1. ASSUME NEW m \in {"auto", "refresh"}, Queue(m) PROVE Embeddings'
  BY <1>1 DEF Queue
<1>2. CASE SigAbi
  BY <1>2 DEF SigAbi, GetAbi
<1>3. CASE SigEmb
  BY <1>3 DEF SigEmb, Resolve
<1>4. CASE SigStat
  BY <1>4 DEF SigStat
<1>5. CASE Compare
  BY <1>5 DEF Compare
<1>6. CASE Stat
  BY <1>6 DEF Stat, Raise, Reset
<1>7. CASE Abi
  BY <1>7 DEF Abi, GetAbi
<1>8. CASE Key
  <2>1. PICK v \in Contents \cup {NoEmb} : Resolve(v) /\ key' = [key EXCEPT !.emb = v]
    BY <1>8 DEF Key
  <2>2. key'.emb = v
    BY <2>1
  <2>3. (~swapped' /\ ~unresolved') => v = emb /\ ~swapped /\ ~unresolved
    BY <2>1, <1>8 DEF Key, Resolve
  <2> QED
    BY <2>2, <2>3, <1>8 DEF Key
<1>9. CASE Lookup
  BY <1>9 DEF Lookup, Forced
<1>10. CASE Load
  BY <1>10 DEF Load, Raise, Reset
<1>11. CASE Encode
  <2>1. CASE made' = [made EXCEPT !.emb = emb, !.abi = code] /\ pc' = "save"
    <3>1. made'.emb = emb
      BY <2>1
    <3> QED
      BY <2>1, <3>1, <1>11 DEF Encode, Raise, Reset
  <2>2. CASE Raise
    BY <2>2, <1>11 DEF Encode, Raise, Reset
  <2> QED
    BY <2>1, <2>2, <1>11 DEF Encode
<1>12. CASE Save
  BY <1>12 DEF Save
<1>13. CASE Done
  BY <1>13 DEF Done, Reset
<1>14. CASE ReplaceCkpt
  BY <1>14 DEF ReplaceCkpt, Change
<1>15. CASE RemoveCkpt
  BY <1>15 DEF RemoveCkpt, Change
<1>16. ASSUME NEW e \in Contents \cup {NoEmb}, SwapEmb(e) PROVE Embeddings'
  BY <1>16 DEF SwapEmb, Change
<1>17. CASE UpdateSource
  BY <1>17 DEF UpdateSource, Change
<1>18. CASE Restart
  BY <1>18 DEF Restart, Reset, Change
<1>19. CASE Rest \/ UNCHANGED vars
  BY <1>19 DEF Rest
<1> HIDE DEF Embeddings
<1> QED
  BY <1>1, <1>2, <1>3, <1>4, <1>5, <1>6, <1>7, <1>8, <1>9, <1>10, <1>11, <1>12, <1>13, <1>14, <1>15, <1>16, <1>17, <1>18, <1>19 DEF Next, Run, World

-----------------------------------------------------------------------------
(* The theorems.                                                           *)

\* FreshInv holds throughout: what the caches keep, and what the run at hand has
\* read, is related to what it was made of (nodes.py, fingerprint.py).
THEOREM Invariance == Spec => []FreshInv
<1>1. Init => FreshInv
  <2> SUFFICES ASSUME Init PROVE FreshInv
    OBVIOUS
  <2>1. WorldTypes /\ RunTypes /\ CacheTypes /\ HistoryTypes
    BY Blanks, FreshnessAssumption
    DEF Init, WorldTypes, RunTypes, CacheTypes, HistoryTypes, Unread, Pcs
  <2>2. TypeOK
    BY <2>1 DEF TypeOK, WorldTypes, RunTypes, CacheTypes, HistoryTypes
  <2>3. Signs /\ Ages
    BY DEF Init, Signs, Ages, AfterStat, NoMemo, NaN, Nothing
  <2>4. Implementations /\ Embeddings
    BY DEF Init, Implementations, Embeddings, AfterAbi, AfterKey, Made, NoMemo, NaN, Nothing,
           Unread
  <2> QED
    BY <2>2, <2>3, <2>4 DEF FreshInv
<1>2. FreshInv /\ [Next]_vars => FreshInv'
  BY TypeStep, SignsStep, AgesStep, ImplementationsStep, EmbeddingsStep DEF FreshInv
<1> QED
  BY <1>1, <1>2, PTL DEF Spec

\* Every variable keeps its type, and the disk cache never holds two encodes
\* under one fingerprint.
THEOREM TypeCorrect == Spec => []TypeOK
<1>1. FreshInv => TypeOK
  BY DEF FreshInv
<1> QED
  BY <1>1, Invariance, PTL

\* However many checkpoints replace one another between the stat of the
\* signature, the stat of the fingerprint and the load, no run returns an encode
\* of one older than the run (nodes.py: _is_changed_common, _build_cached_proxy).
THEOREM NeverOlder == Spec => []NeverOlderCheckpoint
<1>1. FreshInv => NeverOlderCheckpoint
  BY DEF FreshInv, Ages, NeverOlderCheckpoint
<1> QED
  BY <1>1, Invariance, PTL

\* No cache returns what another implementation encoded, known or not
\* (encoder_abi.py: get_encoder_abi_id).
THEOREM ImplementationIsRight == Spec => []RightImplementation
<1>1. FreshInv => RightImplementation
  BY DEF FreshInv, TypeOK, Implementations, RightImplementation, SameImplementation,
         ForcedRunsEncode
<1> QED
  BY <1>1, Invariance, PTL

\* A returned encode holds an embedding that was on disk during the run
\* (embeddings.py: resolve_prompt_embedding_tensors).
THEOREM EmbeddingsAreCurrent == Spec => []EmbeddingWasThere
<1>1. FreshInv => EmbeddingWasThere
  BY DEF FreshInv, Embeddings, Made, EmbeddingWasThere
<1> QED
  BY <1>1, Invariance, PTL
=============================================================================
