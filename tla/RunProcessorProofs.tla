------------------------- MODULE RunProcessorProofs -------------------------
(***************************************************************************)
(* What a processor has been told of, has written and reports, for every   *)
(* set of message types, every file and every way a run can go.            *)
(***************************************************************************)
EXTENDS RunProcessor, FiniteSetTheorems, WellFoundedInduction, TLAPS

(* The types, without the report's.                                        *)
Kinds ==
    /\ file \in Files
    /\ processor \in Processors
    /\ calls \in 0 .. Len(file.blocks)
    /\ DOMAIN messages_ \subseteq Types
    /\ \A t \in DOMAIN messages_ : messages_[t] \in [n : Nat, first : Nat, last : Nat]
    /\ count_ \in Nat
    /\ rows \in [Types -> Seq(Nat \ {0})]
    /\ disk \in [Types -> {"absent", "earlier", "open", "closed", "broken"}]

Flags == unpack_first \in BOOLEAN /\ info \in BOOLEAN /\ debug \in BOOLEAN

Controls ==
    /\ pc \in {"truncate", "construct", "unwind", "check_type", "reading", "returned",
               "thrown", "done", "destroy", "exit", "refused", "killed"}
    /\ path \in {"none", "process_raw", "unpack_then_process", "read_directly"}
    /\ duration \in {"min", "processing", "whole"}

ReportTyped == report \in [reported : SUBSET Types, missing : SUBSET Types, total : Nat]

(* Nobody sets duration before the processing has returned.                *)
Durations ==
    /\ pc \in {"truncate", "construct", "unwind", "check_type", "reading", "thrown"} =>
           duration = "min"
    /\ pc = "returned" => duration = "processing"

(* Where the processors that count by themselves are.                      *)
Counts ==
    pc # "killed" /\ (processor \in Writers \/ (processor = "dump" /\ info)) =>
        count_ = calls

(* The outputs that an earlier run has left are gone when reading starts.  *)
Sinks ==
    /\ pc \in {"truncate", "construct", "unwind", "check_type"} => path = "none"
    /\ processor \in Writers =>
           /\ path # "none" \/ pc = "check_type" =>
                  \A t \in Types : disk[t] \notin {"absent", "earlier"}
           /\ pc \in {"exit", "refused"} => ~SomeOpen
    /\ processor = "hdf5" =>
           /\ pc = "construct" => \A t \in Types : disk[t] # "earlier"
           /\ \A t, u \in Types : disk[t] = "earlier" => disk[u] = "earlier"

IInv ==
    /\ Kinds
    /\ Flags
    /\ Controls
    /\ ReportTyped
    /\ Durations
    /\ Counts
    /\ Sinks
    /\ CounterAgrees
    /\ RowsAreTheMessages
    /\ ReportIsTrue

-----------------------------------------------------------------------------
(* Induction on finite sets: the library's theorem takes an operator as a  *)
(* parameter, this one a set, which any prover can name.                   *)

(* A set with the empty one, and with each subset of S that is in it after *)
(* any element has been taken away, has S itself if S is finite.           *)
LEMMA SubsetInduction ==
    ASSUME NEW S, IsFiniteSet(S), NEW P, {} \in P,
           \A T \in SUBSET S : T # {} /\ (\A x \in T : T \ {x} \in P) => T \in P
    PROVE  S \in P
    <1> DEFINE R == StrictSubsetOrdering(S)
    <1>1. IsWellFoundedOn(R, SUBSET S)
        BY FS_StrictSubsetOrderingWellFounded, FS_FiniteSubsetsOfFinite
    <1>2. \A T \in SUBSET S : \A x \in T : <<T \ {x}, T>> \in R
        BY DEF StrictSubsetOrdering
    <1> HIDE DEF R
    <1> SUFFICES ASSUME S \notin P PROVE FALSE
        OBVIOUS
    <1> DEFINE Out == {T \in SUBSET S : T \notin P}
    <1>3. Out \subseteq SUBSET S /\ Out # {}
        OBVIOUS
    <1> HIDE DEF Out
    <1>4. PICK T \in Out : \A U \in Out : ~ (<<U, T>> \in R)
        BY <1>1, <1>3, WFMin
    <1>5. T \in SUBSET S /\ T \notin P /\ T # {}
        BY DEF Out
    <1>6. \A x \in T : T \ {x} \in P
        BY <1>2, <1>4, <1>5 DEF Out
    <1> QED
        BY <1>5, <1>6

(* Every non-empty set of natural numbers has a smallest element.          *)
LEMMA Least ==
    ASSUME NEW T, T \subseteq Nat, T # {}
    PROVE  \E m \in T : \A n \in T : m <= n
    <1> DEFINE R == OpToRel(<, Nat)
    <1>1. IsWellFoundedOn(R, Nat)
        BY NatLessThanWellFounded
    <1>2. \A m, n \in Nat : m < n => <<m, n>> \in R
        BY DEF OpToRel
    <1> HIDE DEF R
    <1>3. PICK m \in T : \A n \in T : ~ (<<n, m>> \in R)
        BY <1>1, WFMin
    <1>4. ASSUME NEW n \in T PROVE m <= n
        <2>1. m \in Nat /\ n \in Nat
            OBVIOUS
        <2>2. ~ (n < m)
            BY <1>2, <1>3, <2>1, Zenon
        <2> QED
            BY <2>1, <2>2
    <1> QED
        BY <1>4

(* The smallest and the largest element of a set, and of one that gets a   *)
(* new largest element.                                                    *)
LEMMA MinIs ==
    ASSUME NEW S \in SUBSET Nat, NEW m \in S, \A x \in S : m <= x
    PROVE  Min(S) = m
    <1>1. \A a, b \in S : a <= b /\ b <= a => a = b
        OBVIOUS
    <1>2. Min(S) \in S /\ \A x \in S : Min(S) <= x
        BY DEF Min
    <1> QED
        BY <1>1, <1>2

LEMMA MaxIs ==
    ASSUME NEW S \in SUBSET Nat, NEW m \in S, \A x \in S : m >= x
    PROVE  Max(S) = m
    <1>1. \A a, b \in S : a <= b /\ b <= a => a = b
        OBVIOUS
    <1>2. Max(S) \in S /\ \A x \in S : Max(S) >= x
        BY DEF Max
    <1> QED
        BY <1>1, <1>2

LEMMA LargerAdded ==
    ASSUME NEW S \in SUBSET Nat, S # {}, NEW c \in Nat, \A x \in S : x < c
    PROVE  Min(S \union {c}) = Min(S) /\ Max(S \union {c}) = c
    <1>1. PICK m \in S : \A x \in S : m <= x
        BY Least
    <1>2. Min(S) = m
        BY <1>1, MinIs
    <1>3. S \union {c} \in SUBSET Nat /\ m \in S \union {c} /\ c \in S \union {c}
        OBVIOUS
    <1>4. \A x \in S \union {c} : m <= x /\ c >= x
        BY <1>1
    <1>5. Min(S \union {c}) = m
        BY <1>3, <1>4, MinIs
    <1>6. Max(S \union {c}) = c
        BY <1>3, <1>4, MaxIs
    <1> QED
        BY <1>2, <1>5, <1>6

(* The total of done() is the number of all messages that were counted: no *)
(* matter in which order the types are taken, as no message has two types. *)
LEMMA SumOfCardinalities ==
    ASSUME NEW D, IsFiniteSet(D), NEW C, NEW m,
           \A t \in D : IsFiniteSet(C[t]) /\ m[t].n = Cardinality(C[t]),
           \A t, u \in D : t # u => C[t] \intersect C[u] = {}
    PROVE  TotalOf(m, D) = Cardinality(UNION {C[t] : t \in D})
    <1> DEFINE pick(s) == CHOOSE x \in s : TRUE
               Sums(g) == g = [s \in SUBSET D |->
                                 IF s = {} THEN 0 ELSE m[pick(s)].n + g[s \ {pick(s)}]]
               iter == CHOOSE g : Sums(g)
    <1>1. TotalOf(m, D) = iter[D]
        BY DEF TotalOf, MapThenSumSet, MapThenFoldSet
    <1> DEFINE all(s) == UNION {C[t] : t \in s}
               total == [s \in SUBSET D |-> Cardinality(all(s))]
    <1>2. \A s \in SUBSET D : s # {} => pick(s) \in s
        OBVIOUS
    <1>3. \A s \in SUBSET D : IsFiniteSet(all(s))
        <2> TAKE s \in SUBSET D
        <2> DEFINE P == {u \in SUBSET s : IsFiniteSet(all(u))}
        <2>1. {} \in P
            <3>1. all({}) = {} /\ {} \in SUBSET s
                OBVIOUS
            <3> QED
                BY <3>1, FS_EmptySet
        <2>2. \A T \in SUBSET s : T # {} /\ (\A t \in T : T \ {t} \in P) => T \in P
            <3> SUFFICES ASSUME NEW T \in SUBSET s, NEW t \in T, T \ {t} \in P PROVE T \in P
                OBVIOUS
            <3>1. all(T) = C[t] \union all(T \ {t})
                OBVIOUS
            <3>2. IsFiniteSet(C[t]) /\ IsFiniteSet(all(T \ {t}))
                OBVIOUS
            <3> HIDE DEF all
            <3>3. IsFiniteSet(C[t] \union all(T \ {t}))
                BY <3>2, FS_Union, Zenon
            <3> QED
                BY <3>1, <3>3
        <2>3. IsFiniteSet(s)
            BY FS_Subset
        <2> HIDE DEF P
        <2>4. s \in P
            BY <2>1, <2>2, <2>3, SubsetInduction
        <2> QED
            BY <2>4 DEF P
    <1>4. \A s \in SUBSET D : \A t \in s :
              Cardinality(all(s)) = m[t].n + Cardinality(all(s \ {t}))
        <2> TAKE s \in SUBSET D
        <2> TAKE t \in s
        <2>1. all(s) = C[t] \union all(s \ {t})
            OBVIOUS
        <2>2. C[t] \intersect all(s \ {t}) = {}
            OBVIOUS
        <2>3. IsFiniteSet(C[t]) /\ IsFiniteSet(all(s \ {t})) /\ m[t].n = Cardinality(C[t])
            BY <1>3
        <2>4. Cardinality(all(s)) =
                  Cardinality(C[t]) + Cardinality(all(s \ {t})) - Cardinality({})
            BY <2>1, <2>2, <2>3, FS_Union
        <2>5. Cardinality(C[t]) \in Nat /\ Cardinality(all(s \ {t})) \in Nat
            BY <2>3, FS_CardinalityType
        <2> QED
            BY <2>3, <2>4, <2>5, FS_EmptySet
    <1> HIDE DEF pick
    <1>5. Cardinality(all({})) = 0
        <2>1. all({}) = {}
            OBVIOUS
        <2> QED
            BY <2>1, FS_EmptySet
    <1> HIDE DEF all
    <1>6. Sums(total)
        <2>1. \A s \in SUBSET D :
                  total[s] = IF s = {} THEN 0 ELSE m[pick(s)].n + total[s \ {pick(s)}]
            BY <1>2, <1>4, <1>5
        <2>2. total = [s \in SUBSET D |-> total[s]]
            OBVIOUS
        <2> HIDE DEF total
        <2> QED
            BY <2>1, <2>2
    <1> HIDE DEF total
    <1>7. Sums(iter)
        BY <1>6
    <1> HIDE DEF iter
    <1>8. \A s \in SUBSET D : iter[s] = IF s = {} THEN 0 ELSE m[pick(s)].n + iter[s \ {pick(s)}]
        BY <1>7
    <1> DEFINE P == {s \in SUBSET D : iter[s] = Cardinality(all(s))}
    <1>9. {} \in P
        BY <1>5, <1>8
    <1>10. \A s \in SUBSET D : s # {} /\ (\A t \in s : s \ {t} \in P) => s \in P
        <2> SUFFICES ASSUME NEW s \in SUBSET D, s # {}, \A t \in s : s \ {t} \in P
                     PROVE  s \in P
            OBVIOUS
        <2>1. pick(s) \in s /\ iter[s \ {pick(s)}] = Cardinality(all(s \ {pick(s)}))
            BY <1>2
        <2>2. iter[s] = m[pick(s)].n + iter[s \ {pick(s)}]
            BY <1>8
        <2>3. Cardinality(all(s)) = m[pick(s)].n + Cardinality(all(s \ {pick(s)}))
            BY <1>4, <2>1
        <2> QED
            BY <2>1, <2>2, <2>3
    <1> HIDE DEF P
    <1>11. D \in P
        BY <1>9, <1>10, SubsetInduction
    <1> QED
        BY <1>1, <1>11 DEF P, all

-----------------------------------------------------------------------------
(* What the calls so far were given.                                       *)
LEMMA BlockTypes ==
    ASSUME Kinds
    PROVE  /\ file.blocks \in Seq([type : Types \union {Undecodable}, longer : BOOLEAN])
           /\ Len(file.blocks) \in Nat
           /\ calls \in Nat /\ seqn \in Nat \ {0}
           /\ HasBlock => seqn \in 1 .. Len(file.blocks)
           /\ \A i \in 1 .. Len(file.blocks) : file.blocks[i].type \in Types \union {Undecodable}
    <1>1. file.blocks \in Seq([type : Types \union {Undecodable}, longer : BOOLEAN])
        BY FilesAssumption DEF Kinds
    <1>2. Len(file.blocks) \in Nat
        BY <1>1
    <1>3. \A i \in 1 .. Len(file.blocks) :
              file.blocks[i] \in [type : Types \union {Undecodable}, longer : BOOLEAN]
        <2> DEFINE B == [type : Types \union {Undecodable}, longer : BOOLEAN]
        <2>1. file.blocks \in Seq(B)
            BY <1>1
        <2> HIDE DEF B
        <2>2. \A i \in 1 .. Len(file.blocks) : file.blocks[i] \in B
            BY <2>1
        <2> QED
            BY <2>2 DEF B
    <1>4. calls \in Nat
        BY <1>2 DEF Kinds
    <1> QED
        BY <1>1, <1>2, <1>3, <1>4 DEF seqn, HasBlock

LEMMA CallsWithFinite ==
    ASSUME Kinds, NEW t
    PROVE  /\ CallsWith(t) \in SUBSET Nat
           /\ IsFiniteSet(CallsWith(t))
           /\ Cardinality(CallsWith(t)) \in Nat
           /\ \A i \in CallsWith(t) : i < seqn
    <1>1. calls \in Nat
        BY BlockTypes
    <1>2. IsFiniteSet(1 .. calls) /\ CallsWith(t) \in SUBSET (1 .. calls)
        BY <1>1, FS_Interval DEF CallsWith
    <1> QED
        BY <1>1, <1>2, FS_Subset, FS_CardinalityType DEF seqn

(* One more call is one more of the type of its message.                   *)
LEMMA OneMoreCall ==
    ASSUME Kinds, HasBlock, UNCHANGED file, calls' = calls + 1, NEW t
    PROVE  CallsWith(t)' = IF t = type THEN CallsWith(t) \union {seqn} ELSE CallsWith(t)
    <1>1. calls \in Nat /\ calls' = seqn
        BY BlockTypes DEF seqn
    <1>2. 1 .. calls' = (1 .. calls) \union {seqn}
        BY <1>1 DEF seqn
    <1> QED
        BY <1>1, <1>2 DEF CallsWith, type

-----------------------------------------------------------------------------
(* The steps that change what was counted, written or reported; the others *)
(* change the outputs or the place in the program.                         *)
Working ==
    \/ CountBlock
    \/ DumpBlock
    \/ WriteBlock
    \/ WriteThrows
    \/ DoneCounting
    \/ DoneElse

Passing ==
    \/ Truncate
    \/ TruncateThrows
    \/ \E t \in Types : \/ MakeSink(t)
                         \/ MakeSinkThrows(t)
                         \/ CloseSink(t)
                         \/ CloseFails(t)
    \/ Constructed
    \/ CheckType
    \/ ReaderThrows
    \/ DecodeThrows
    \/ ReaderReturns
    \/ LeaveTry
    \/ Destroyed
    \/ Killed
    \/ UNCHANGED vars

LEMMA StepKinds == [Next]_vars => Working \/ Passing
    BY DEF Next, Step, Working, Passing

LEMMA PassingChanges ==
    ASSUME Passing
    PROVE  /\ UNCHANGED <<input, calls, messages_, count_, rows, report>>
           /\ pc = "killed" => pc' = "killed"
           /\ Ended => Ended'
           /\ pc' \in {"destroy", "exit"} => pc \in {"destroy", "exit"}
    <1> USE DEF input, state, Ended
    <1>1. CASE \E t \in Types : MakeSink(t) \/ MakeSinkThrows(t) \/ CloseSink(t) \/ CloseFails(t)
        BY <1>1 DEF MakeSink, MakeSinkThrows, CloseSink, CloseFails
    <1>2. CASE Truncate \/ TruncateThrows \/ Constructed \/ Destroyed \/ Killed
        BY <1>2 DEF Truncate, TruncateThrows, Constructed, Destroyed, Killed
    <1>3. CASE CheckType \/ ReaderThrows \/ DecodeThrows
        BY <1>3 DEF CheckType, ReaderThrows, DecodeThrows
    <1>4. CASE ReaderReturns \/ LeaveTry
        BY <1>4 DEF ReaderReturns, LeaveTry, Handled
    <1>5. CASE UNCHANGED vars
        BY <1>5 DEF vars
    <1> QED
        BY <1>1, <1>2, <1>3, <1>4, <1>5 DEF Passing

(* What a step of the second sort does to the outputs: nothing is absent   *)
(* or of an earlier run again, and what is left is left of everything.     *)
LEMMA PassingSinks == ASSUME Kinds, Controls, Sinks, Passing PROVE Kinds' /\ Sinks'
    <1>1. UNCHANGED <<input, calls, messages_, count_, rows, report>>
        BY PassingChanges
    <1>2. disk' \in [Types -> {"absent", "earlier", "open", "closed", "broken"}] /\ Sinks'
        <2> USE <1>1 DEF Kinds, input, SomeOpen, AllOpen
        <2>1. CASE Truncate
            BY <2>1 DEF Truncate, NoContent, Sinks
        <2>2. CASE TruncateThrows
            BY <2>2 DEF TruncateThrows, NoContent, Sinks
        <2>3. ASSUME NEW t \in Types, MakeSink(t)
              PROVE  disk' \in [Types -> {"absent", "earlier", "open", "closed", "broken"}]
                     /\ Sinks'
            BY <2>3 DEF MakeSink, Sinks
        <2>4. ASSUME NEW t \in Types, MakeSinkThrows(t)
              PROVE  disk' \in [Types -> {"absent", "earlier", "open", "closed", "broken"}]
                     /\ Sinks'
            BY <2>4 DEF MakeSinkThrows, Sinks
        <2>5. ASSUME NEW t \in Types, CloseSink(t)
              PROVE  disk' \in [Types -> {"absent", "earlier", "open", "closed", "broken"}]
                     /\ Sinks'
            BY <2>5 DEF CloseSink, Sinks
        <2>6. ASSUME NEW t \in Types, CloseFails(t)
              PROVE  disk' \in [Types -> {"absent", "earlier", "open", "closed", "broken"}]
                     /\ Sinks'
            BY <2>6 DEF CloseFails, Sinks
        <2>7. CASE Constructed
            BY <2>7 DEF Constructed, Sinks
        <2>8. CASE CheckType
            BY <2>8 DEF CheckType, Sinks
        <2>9. CASE ReaderThrows \/ DecodeThrows
            BY <2>9 DEF ReaderThrows, DecodeThrows, Sinks
        <2>10. CASE ReaderReturns \/ LeaveTry
            BY <2>10 DEF ReaderReturns, LeaveTry, Handled, Sinks
        <2>11. CASE Destroyed \/ Killed
            BY <2>11 DEF Destroyed, Killed, Sinks
        <2>12. CASE UNCHANGED vars
            BY <2>12 DEF vars, Sinks
        <2> QED
            BY <2>1, <2>2, <2>3, <2>4, <2>5, <2>6, <2>7, <2>8, <2>9, <2>10, <2>11, <2>12
            DEF Passing
    <1> QED
        BY <1>1, <1>2 DEF Kinds, input

LEMMA PassingControls == ASSUME Controls, Durations, Passing PROVE Controls' /\ Durations'
    <1> USE DEF Controls, Durations
    <1>1. CASE \E t \in Types : MakeSink(t) \/ MakeSinkThrows(t) \/ CloseSink(t) \/ CloseFails(t)
        BY <1>1 DEF MakeSink, MakeSinkThrows, CloseSink, CloseFails
    <1>2. CASE Truncate \/ TruncateThrows \/ Constructed \/ Destroyed \/ Killed
        BY <1>2 DEF Truncate, TruncateThrows, Constructed, Destroyed, Killed
    <1>3. CASE CheckType \/ ReaderThrows \/ DecodeThrows
        BY <1>3 DEF CheckType, ReaderThrows, DecodeThrows
    <1>4. CASE ReaderReturns \/ LeaveTry
        BY <1>4 DEF ReaderReturns, LeaveTry, Handled, SentrySets
    <1>5. CASE UNCHANGED vars
        BY <1>5 DEF vars
    <1> QED
        BY <1>1, <1>2, <1>3, <1>4, <1>5 DEF Passing

LEMMA PassingIInv == ASSUME IInv, Passing PROVE IInv'
    <1> USE DEF IInv
    <1>1. /\ UNCHANGED <<input, calls, messages_, count_, rows, report>>
          /\ pc = "killed" => pc' = "killed"
          /\ Ended => Ended'
          /\ pc' \in {"destroy", "exit"} => pc \in {"destroy", "exit"}
        BY PassingChanges
    <1> HIDE DEF IInv
    <1>2. Kinds' /\ Sinks' /\ Controls' /\ Durations'
        BY PassingSinks, PassingControls DEF IInv
    <1>3. Flags' /\ ReportTyped' /\ Counts'
        BY <1>1 DEF IInv, input, Flags, ReportTyped, Counts
    <1>4. \A t : CallsWith(t)' = CallsWith(t)
        BY <1>1 DEF input, CallsWith
    <1>5. CounterAgrees'
        BY <1>1, <1>4 DEF IInv, input, CounterAgrees
    <1>6. RowsAreTheMessages'
        BY <1>1 DEF IInv, input, RowsAreTheMessages
    <1>7. ReportIsTrue'
        BY <1>1, <1>4 DEF IInv, input, ReportIsTrue
    <1> QED
        BY <1>2, <1>3, <1>5, <1>6, <1>7 DEF IInv

-----------------------------------------------------------------------------
(* What the processors do with a block, and what done() says.              *)
LEMMA ReturnedChanges ==
    ASSUME Kinds, HasBlock, Returned
    PROVE  /\ UNCHANGED <<input, path, duration, report, disk>>
           /\ \/ pc' = "killed" /\ calls' = calls
              \/ pc' = pc /\ calls' = calls + 1
           /\ calls' \in 0 .. Len(file.blocks)
    <1>1. calls + 1 \in 0 .. Len(file.blocks) /\ calls \in 0 .. Len(file.blocks)
        BY BlockTypes DEF HasBlock
    <1> QED
        BY <1>1 DEF Returned

(* The entry of a type that is seen again.                                 *)
LEMMA SeenAgain ==
    ASSUME NEW r \in [n : Nat, first : Nat, last : Nat], NEW s \in Nat
    PROVE  [r EXCEPT !.n = @ + 1, !.last = s] = [n |-> r.n + 1, first |-> r.first, last |-> s]
    <1> DEFINE q == [r EXCEPT !.n = r.n + 1]
    <1>1. q = [n |-> r.n + 1, first |-> r.first, last |-> r.last]
        OBVIOUS
    <1> HIDE DEF q
    <1>2. [q EXCEPT !.last = s] = [n |-> r.n + 1, first |-> r.first, last |-> s]
        BY <1>1
    <1> QED
        BY <1>2 DEF q

(* message_counter: the type's numbers follow the calls with that type.    *)
LEMMA CountBlockAgrees ==
    ASSUME IInv, CountBlock
    PROVE  /\ CounterAgrees'
           /\ DOMAIN messages_' \subseteq Types
           /\ \A t \in DOMAIN messages_' : messages_'[t] \in [n : Nat, first : Nat, last : Nat]
    <1> DEFINE D == {t \in Types : CallsWith(t) # {}}
               numbers(t) == [n     |-> Cardinality(CallsWith(t)),
                              first |-> Min(CallsWith(t)),
                              last  |-> Max(CallsWith(t))]
    <1>1. Kinds /\ HasBlock /\ pc = "reading" /\ processor = "count"
        BY DEF IInv, CountBlock
    <1>2. seqn \in Nat
        BY <1>1, BlockTypes
    <1>3. messages_ = [t \in D |-> numbers(t)]
        BY <1>1 DEF IInv, CounterAgrees
    <1>4. UNCHANGED file /\ (pc' = "killed" \/ calls' = calls + 1)
        BY <1>1, ReturnedChanges DEF CountBlock, input
    <1>5. messages_' = IF type \in Types THEN Counted(messages_, type, seqn) ELSE messages_
        BY DEF CountBlock
    <1>6. CASE type \notin Types
        <2>1. calls' = calls + 1 => \A t \in Types : CallsWith(t)' = CallsWith(t)
            BY <1>1, <1>4, <1>6, OneMoreCall
        <2>2. messages_' = messages_
            BY <1>5, <1>6
        <2>3. CounterAgrees'
            BY <1>3, <1>4, <2>1, <2>2 DEF CounterAgrees
        <2> QED
            BY <1>1, <2>2, <2>3 DEF Kinds
    <1>7. CASE type \in Types
        <2> PICK y \in Types : y = type
            BY <1>7
        <2> DEFINE S == CallsWith(y)
                   new == IF y \in DOMAIN messages_
                          THEN [messages_[y] EXCEPT !.n = @ + 1, !.last = seqn]
                          ELSE [n |-> 1, first |-> seqn, last |-> seqn]
        <2>1. DOMAIN messages_ = D /\ \A t \in D : messages_[t] = numbers(t)
            BY <1>3
        <2>2. messages_' = [t \in {y} \union DOMAIN messages_ |->
                               IF t # y THEN messages_[t] ELSE new]
            <3>1. messages_' = Counted(messages_, y, seqn)
                BY <1>5, <1>7
            <3> QED
                BY <3>1, Zenon DEF Counted
        <2>3. new \in [n : Nat, first : Nat, last : Nat]
            <3>1. CASE y \in DOMAIN messages_
                <4>1. messages_[y] \in [n : Nat, first : Nat, last : Nat]
                    BY <1>1, <3>1 DEF Kinds
                <4>2. new = [n |-> messages_[y].n + 1, first |-> messages_[y].first,
                             last |-> seqn]
                    BY <1>2, <3>1, <4>1, SeenAgain
                <4> QED
                    BY <1>2, <4>1, <4>2
            <3> QED
                BY <1>2, <3>1
        <2>4. \A t \in D : messages_[t] \in [n : Nat, first : Nat, last : Nat]
            BY <1>1, <2>1 DEF Kinds
        <2> HIDE DEF new
        <2>5. /\ DOMAIN messages_' \subseteq Types
              /\ \A t \in DOMAIN messages_' : messages_'[t] \in [n : Nat, first : Nat, last : Nat]
            BY <2>1, <2>2, <2>3, <2>4
        <2>6. CASE pc' = "killed"
            BY <2>5, <2>6 DEF CounterAgrees
        <2>7. CASE calls' = calls + 1
            <3>1. S \in SUBSET Nat /\ IsFiniteSet(S) /\ Cardinality(S) \in Nat
                  /\ \A i \in S : i < seqn
                BY <1>1, CallsWithFinite
            <3>2. CallsWith(y)' = S \union {seqn}
                BY <1>1, <1>4, <2>7, OneMoreCall
            <3>3. Cardinality(S \union {seqn}) = Cardinality(S) + 1
                <4>1. seqn \notin S
                    BY <1>2, <3>1
                <4> QED
                    BY <3>1, <4>1, FS_AddElement, Zenon
            <3>4. new = [n     |-> Cardinality(S \union {seqn}),
                         first |-> Min(S \union {seqn}),
                         last  |-> Max(S \union {seqn})]
                <4>1. CASE S = {}
                    <5>1. y \notin DOMAIN messages_
                        BY <2>1, <4>1
                    <5>2. S \union {seqn} = {seqn} /\ {seqn} \in SUBSET Nat
                        BY <1>2, <4>1
                    <5>3. Min({seqn}) = seqn /\ Max({seqn}) = seqn
                        BY <1>2, <5>2, MinIs, MaxIs
                    <5>4. Cardinality(S \union {seqn}) = 1
                        BY <5>2, FS_Singleton
                    <5> QED
                        BY <5>1, <5>2, <5>3, <5>4 DEF new
                <4>2. CASE S # {}
                    <5>1. y \in DOMAIN messages_
                          /\ messages_[y] = [n |-> Cardinality(S), first |-> Min(S), last |-> Max(S)]
                        BY <2>1, <4>2
                    <5>2. Min(S \union {seqn}) = Min(S) /\ Max(S \union {seqn}) = seqn
                        BY <1>2, <3>1, <4>2, LargerAdded
                    <5> HIDE DEF S
                    <5>3. new = [n |-> messages_[y].n + 1, first |-> messages_[y].first,
                                 last |-> seqn]
                        BY <1>2, <2>1, <2>4, <5>1, SeenAgain DEF new
                    <5> QED
                        BY <3>3, <5>1, <5>2, <5>3
                <4> QED
                    BY <4>1, <4>2
            <3>5. \A t \in Types \ {y} : CallsWith(t)' = CallsWith(t)
                BY <1>1, <1>4, <2>7, OneMoreCall
            <3>6. {t \in Types : CallsWith(t)' # {}} = {y} \union D
                <4>1. CallsWith(y)' # {}
                    BY <3>2
                <4> QED
                    BY <3>5, <4>1
            <3> HIDE DEF S
            <3>7. \A t \in {y} \union D :
                      (IF t # y THEN messages_[t] ELSE new) =
                          [n     |-> Cardinality(CallsWith(t)'),
                           first |-> Min(CallsWith(t)'),
                           last  |-> Max(CallsWith(t)')]
                BY <2>1, <3>2, <3>4, <3>5
            <3>8. messages_' = [t \in {y} \union D |->
                                   [n     |-> Cardinality(CallsWith(t)'),
                                    first |-> Min(CallsWith(t)'),
                                    last  |-> Max(CallsWith(t)')]]
                BY <2>1, <2>2, <3>7
            <3>9. CounterAgrees'
                BY <3>6, <3>8 DEF CounterAgrees
            <3> QED
                BY <2>5, <3>9
        <2> QED
            BY <1>4, <2>6, <2>7
    <1> QED
        BY <1>6, <1>7

(* The sequence numbers of the rows of all writers, and their order.       *)
Written == UNION {Range(rows[t]) : t \in Types}

RowsOrdered ==
    \A t \in Types :
        /\ \A k \in DOMAIN rows[t] : file.blocks[rows[t][k]].type = t
        /\ \A j, k \in DOMAIN rows[t] : j < k => rows[t][j] < rows[t][k]

LEMMA RowsInOtherWords ==
    RowsAreTheMessages <=>
        (processor \in Writers =>
            /\ Written = 1 .. calls \/ (Ended /\ Written = 1 .. calls + 1)
            /\ RowsOrdered)
    BY DEF RowsAreTheMessages, Written, RowsOrdered

(* The row of the next block goes behind all the rows there are.           *)
LEMMA RowAdded ==
    ASSUME Kinds, HasBlock, Written = 1 .. calls, RowsOrdered, type \in Types,
           UNCHANGED file, rows' = [rows EXCEPT ![type] = Append(@, RowOf)]
    PROVE  rows' \in [Types -> Seq(Nat \ {0})] /\ Written' = 1 .. calls + 1 /\ RowsOrdered'
    <1> PICK y \in Types : y = type
        OBVIOUS
    <1> DEFINE r == rows[y]
    <1>1. calls \in Nat /\ seqn \in Nat \ {0} /\ seqn = calls + 1
        BY BlockTypes DEF seqn
    <1>2. r \in Seq(Nat \ {0}) /\ rows \in [Types -> Seq(Nat \ {0})]
        BY DEF Kinds
    <1>3. rows' = [rows EXCEPT ![y] = Append(r, seqn)]
        BY DEF RowOf
    <1>4. /\ Append(r, seqn) \in Seq(Nat \ {0})
          /\ DOMAIN r = 1 .. Len(r) /\ Len(r) \in Nat
          /\ DOMAIN Append(r, seqn) = 1 .. Len(r) + 1
          /\ \A k \in 1 .. Len(r) : Append(r, seqn)[k] = r[k]
          /\ Append(r, seqn)[Len(r) + 1] = seqn
        <2>1. r \in Seq(Nat \ {0}) /\ seqn \in Nat \ {0}
            BY <1>1, <1>2
        <2> HIDE DEF r
        <2> QED
            BY <2>1
    <1>5. rows' \in [Types -> Seq(Nat \ {0})]
        BY <1>2, <1>3, <1>4
    <1>6. rows'[y] = Append(r, seqn) /\ \A t \in Types \ {y} : rows'[t] = rows[t]
        BY <1>2, <1>3
    <1>7. Written' = 1 .. calls + 1
        <2>1. Range(rows'[y]) = Range(rows[y]) \union {seqn}
            <3>1. \A k \in 1 .. Len(r) + 1 : k \in 1 .. Len(r) \/ k = Len(r) + 1
                BY <1>4
            <3>2. Len(r) + 1 \in 1 .. Len(r) + 1 /\ \A k \in 1 .. Len(r) : k \in 1 .. Len(r) + 1
                BY <1>4
            <3> QED
                BY <1>4, <1>6, <3>1, <3>2 DEF Range
        <2>2. \A t \in Types \ {y} : Range(rows'[t]) = Range(rows[t])
            BY <1>6
        <2>3. ASSUME NEW x
              PROVE  (\E t \in Types : x \in Range(rows'[t]))
                         <=> (\E t \in Types : x \in Range(rows[t])) \/ x = seqn
            <3>1. x \in Range(rows'[y]) <=> x \in Range(rows[y]) \/ x = seqn
                BY <2>1
            <3>2. \A t \in Types : t # y => (x \in Range(rows'[t]) <=> x \in Range(rows[t]))
                BY <2>2
            <3> QED
                BY <3>1, <3>2, Zenon
        <2>4. Written' = Written \union {seqn}
            <3>1. \A x : x \in Written' <=> \E t \in Types : x \in Range(rows'[t])
                BY DEF Written
            <3>2. \A x : x \in Written <=> \E t \in Types : x \in Range(rows[t])
                BY Zenon DEF Written
            <3> QED
                BY <2>3, <3>1, <3>2
        <2>5. (1 .. calls) \union {seqn} = 1 .. calls + 1
            BY <1>1
        <2> QED
            BY <2>4, <2>5
    <1>8. \A k \in DOMAIN r : r[k] \in 1 .. calls
        BY DEF Written, Range
    <1>9. /\ \A k \in DOMAIN rows'[y] : file'.blocks[rows'[y][k]].type = y
          /\ \A j, k \in DOMAIN rows'[y] : j < k => rows'[y][j] < rows'[y][k]
        <2>1. /\ \A k \in DOMAIN r : file.blocks[r[k]].type = y
              /\ \A j, k \in DOMAIN r : j < k => r[j] < r[k]
            BY DEF RowsOrdered
        <2>2. file.blocks[seqn].type = y
            BY DEF type
        <2>3. ASSUME NEW k \in 1 .. Len(r) + 1
              PROVE  file.blocks[Append(r, seqn)[k]].type = y
            BY <1>4, <2>1, <2>2, <2>3
        <2>4. ASSUME NEW j \in 1 .. Len(r) + 1, NEW k \in 1 .. Len(r) + 1, j < k
              PROVE  Append(r, seqn)[j] < Append(r, seqn)[k]
            <3>1. j \in 1 .. Len(r) /\ Append(r, seqn)[j] = r[j]
                BY <1>4, <2>4
            <3>2. CASE k \in 1 .. Len(r)
                BY <1>4, <2>1, <2>4, <3>1, <3>2
            <3>3. CASE k = Len(r) + 1
                <4>1. r[j] \in 1 .. calls
                    BY <1>4, <1>8, <3>1
                <4>2. r[j] < seqn
                    BY <1>1, <4>1
                <4> QED
                    BY <1>4, <3>1, <3>3, <4>2
            <3> QED
                BY <1>4, <3>2, <3>3
        <2> QED
            BY <1>4, <1>6, <2>3, <2>4
    <1>10. \A t \in Types \ {y} :
              /\ \A k \in DOMAIN rows'[t] : file'.blocks[rows'[t][k]].type = t
              /\ \A j, k \in DOMAIN rows'[t] : j < k => rows'[t][j] < rows'[t][k]
        BY <1>6 DEF RowsOrdered
    <1>11. RowsOrdered'
        BY <1>9, <1>10 DEF RowsOrdered
    <1> QED
        BY <1>5, <1>7, <1>11

LEMMA CountBlockIInv == ASSUME IInv, CountBlock PROVE IInv'
    <1>1. Kinds /\ HasBlock /\ Returned /\ processor = "count" /\ pc = "reading"
          /\ UNCHANGED <<count_, rows>>
        BY DEF IInv, CountBlock
    <1>2. /\ UNCHANGED <<input, path, duration, report, disk>>
          /\ \/ pc' = "killed" /\ calls' = calls
             \/ pc' = pc /\ calls' = calls + 1
          /\ calls' \in 0 .. Len(file.blocks)
        BY <1>1, ReturnedChanges
    <1>3. /\ CounterAgrees'
          /\ DOMAIN messages_' \subseteq Types
          /\ \A t \in DOMAIN messages_' : messages_'[t] \in [n : Nat, first : Nat, last : Nat]
        BY CountBlockAgrees
    <1>4. Kinds'
        BY <1>1, <1>2, <1>3 DEF Kinds, input
    <1>5. Flags' /\ Controls' /\ ReportTyped' /\ Durations'
        BY <1>1, <1>2 DEF IInv, Flags, Controls, ReportTyped, Durations, input
    <1>6. Sinks'
        BY <1>1, <1>2 DEF IInv, Sinks, SomeOpen, input
    <1>7. Counts' /\ RowsAreTheMessages' /\ ReportIsTrue'
        BY <1>1, <1>2 DEF Counts, RowsAreTheMessages, ReportIsTrue, Writers, input
    <1> QED
        BY <1>3, <1>4, <1>5, <1>6, <1>7 DEF IInv

LEMMA DumpBlockIInv == ASSUME IInv, DumpBlock PROVE IInv'
    <1>1. Kinds /\ HasBlock /\ Returned /\ processor = "dump" /\ pc = "reading"
          /\ UNCHANGED <<messages_, rows>> /\ count_' = IF info THEN count_ + 1 ELSE count_
        BY DEF IInv, DumpBlock
    <1>2. /\ UNCHANGED <<input, path, duration, report, disk>>
          /\ \/ pc' = "killed" /\ calls' = calls
             \/ pc' = pc /\ calls' = calls + 1
          /\ calls' \in 0 .. Len(file.blocks)
        BY <1>1, ReturnedChanges
    <1>3. Kinds'
        BY <1>1, <1>2 DEF Kinds, input
    <1>4. Flags' /\ Controls' /\ ReportTyped' /\ Durations'
        BY <1>1, <1>2 DEF IInv, Flags, Controls, ReportTyped, Durations, input
    <1>5. Sinks'
        BY <1>1, <1>2 DEF IInv, Sinks, SomeOpen, input
    <1>6. CounterAgrees' /\ RowsAreTheMessages' /\ ReportIsTrue'
        BY <1>1, <1>2 DEF CounterAgrees, RowsAreTheMessages, ReportIsTrue, Writers, input
    <1>7. Counts'
        BY <1>1, <1>2 DEF IInv, Counts, Writers, input
    <1> QED
        BY <1>3, <1>4, <1>5, <1>6, <1>7 DEF IInv

LEMMA WriteBlockIInv == ASSUME IInv, WriteBlock PROVE IInv'
    <1>1. Kinds /\ HasBlock /\ Returned /\ processor \in Writers /\ pc = "reading"
          /\ type \in Types /\ UNCHANGED messages_ /\ count_' = count_ + 1
          /\ rows' = [rows EXCEPT ![type] = Append(@, RowOf)]
        BY DEF IInv, WriteBlock
    <1>2. /\ UNCHANGED <<input, path, duration, report, disk>>
          /\ \/ pc' = "killed" /\ calls' = calls
             \/ pc' = pc /\ calls' = calls + 1
          /\ calls' \in 0 .. Len(file.blocks)
        BY <1>1, ReturnedChanges
    <1>3. Written = 1 .. calls /\ RowsOrdered
        BY <1>1, RowsInOtherWords DEF IInv, Ended
    <1>4. rows' \in [Types -> Seq(Nat \ {0})] /\ Written' = 1 .. calls + 1 /\ RowsOrdered'
        BY <1>1, <1>2, <1>3, RowAdded DEF input
    <1>5. RowsAreTheMessages'
        BY <1>2, <1>4 DEF RowsAreTheMessages, Written, RowsOrdered, Ended
    <1>6. Kinds'
        BY <1>1, <1>2, <1>4 DEF Kinds, input
    <1>7. Flags' /\ Controls' /\ ReportTyped' /\ Durations'
        BY <1>1, <1>2 DEF IInv, Flags, Controls, ReportTyped, Durations, input
    <1>8. Sinks'
        BY <1>1, <1>2 DEF IInv, Sinks, SomeOpen, input
    <1>9. CounterAgrees' /\ ReportIsTrue'
        BY <1>1, <1>2 DEF CounterAgrees, ReportIsTrue, Writers, input
    <1>10. Counts'
        BY <1>1, <1>2 DEF IInv, Counts, Writers, input
    <1> QED
        BY <1>5, <1>6, <1>7, <1>8, <1>9, <1>10 DEF IInv

LEMMA WriteThrowsIInv == ASSUME IInv, WriteThrows PROVE IInv'
    <1>1. Kinds /\ HasBlock /\ processor \in Writers /\ pc = "reading" /\ type \in Types
          /\ rows' \in {rows, [rows EXCEPT ![type] = Append(@, RowOf)]} /\ pc' = "thrown"
          /\ UNCHANGED <<input, path, calls, duration, messages_, count_, report, disk>>
        BY DEF IInv, WriteThrows
    <1>2. Written = 1 .. calls /\ RowsOrdered
        BY <1>1, RowsInOtherWords DEF IInv, Ended
    <1>3. rows' \in [Types -> Seq(Nat \ {0})] /\ RowsAreTheMessages'
        <2>1. CASE rows' = rows
            BY <1>1, <1>2, <2>1
            DEF RowsAreTheMessages, Written, RowsOrdered, Ended, Kinds, input
        <2>2. CASE rows' = [rows EXCEPT ![type] = Append(@, RowOf)]
            <3>1. /\ rows' \in [Types -> Seq(Nat \ {0})]
                  /\ Written' = 1 .. calls + 1 /\ RowsOrdered'
                BY <1>1, <1>2, <2>2, RowAdded DEF input
            <3> QED
                BY <1>1, <3>1 DEF RowsAreTheMessages, Written, RowsOrdered, Ended
        <2> QED
            BY <1>1, <2>1, <2>2
    <1>4. Kinds'
        BY <1>1, <1>3 DEF Kinds, input
    <1>5. Flags' /\ Controls' /\ ReportTyped' /\ Durations'
        BY <1>1 DEF IInv, Flags, Controls, ReportTyped, Durations, input
    <1>6. Sinks'
        BY <1>1 DEF IInv, Sinks, SomeOpen, input
    <1>7. CounterAgrees' /\ ReportIsTrue'
        BY <1>1 DEF CounterAgrees, ReportIsTrue, Writers, input
    <1>8. Counts'
        BY <1>1 DEF IInv, Counts, Writers, input
    <1> QED
        BY <1>3, <1>4, <1>5, <1>6, <1>7, <1>8 DEF IInv

(* The sum that done() logs.                                               *)
LEMMA TotalIsTrue ==
    ASSUME Kinds, CounterAgrees, processor = "count", pc = "done"
    PROVE  /\ DOMAIN messages_ = {t \in Types : CallsWith(t) # {}}
           /\ TotalOf(messages_, DOMAIN messages_) =
                  Cardinality({i \in 1 .. calls : file.blocks[i].type \in Types})
           /\ TotalOf(messages_, DOMAIN messages_) \in Nat
    <1> DEFINE D == {t \in Types : CallsWith(t) # {}}
               I == {i \in 1 .. calls : file.blocks[i].type \in Types}
               C == [t \in D |-> CallsWith(t)]
               typeOf == [i \in I |-> file.blocks[i].type]
    <1>1. DOMAIN messages_ = D /\ \A t \in D : messages_[t].n = Cardinality(CallsWith(t))
        BY DEF CounterAgrees
    <1>2. IsFiniteSet(I) /\ Cardinality(I) \in Nat
        <2>1. IsFiniteSet(1 .. calls) /\ I \in SUBSET (1 .. calls)
            BY BlockTypes, FS_Interval
        <2> HIDE DEF I
        <2> QED
            BY <2>1, FS_Subset, FS_CardinalityType
    <1>3. IsFiniteSet(D)
        <2>1. typeOf \in Surjection(I, D)
            BY DEF Surjection, CallsWith
        <2> HIDE DEF typeOf, I, D
        <2> QED
            BY <1>2, <2>1, FS_Surjection
    <1>4. \A t \in D : IsFiniteSet(C[t]) /\ messages_[t].n = Cardinality(C[t])
        BY <1>1, CallsWithFinite
    <1>5. \A t, u \in D : t # u => C[t] \intersect C[u] = {}
        BY DEF CallsWith
    <1>6. UNION {C[t] : t \in D} = I
        <2>1. ASSUME NEW i \in I PROVE \E t \in D : i \in C[t]
            <3>1. file.blocks[i].type \in D /\ i \in C[file.blocks[i].type]
                BY DEF CallsWith
            <3> QED
                BY <3>1
        <2>2. ASSUME NEW t \in D PROVE C[t] \subseteq I
            BY DEF CallsWith
        <2> HIDE DEF C, D, I
        <2> QED
            BY <2>1, <2>2
    <1> HIDE DEF C, D, I
    <1>7. TotalOf(messages_, D) = Cardinality(UNION {C[t] : t \in D})
        BY <1>3, <1>4, <1>5, SumOfCardinalities
    <1> QED
        BY <1>1, <1>2, <1>6, <1>7 DEF D, I

LEMMA DoneIInv == ASSUME IInv, DoneCounting \/ DoneElse PROVE IInv'
    <1>1. Kinds /\ pc = "done" /\ pc' = "destroy"
          /\ UNCHANGED <<input, path, calls, duration, messages_, count_, rows, disk>>
        BY DEF IInv, DoneCounting, DoneElse, state
    <1>2. Kinds'
        BY <1>1 DEF Kinds, input
    <1>3. Flags' /\ Controls' /\ Durations' /\ Counts'
        BY <1>1 DEF IInv, Flags, Controls, Durations, Counts, input
    <1>4. Sinks'
        BY <1>1 DEF IInv, Sinks, SomeOpen, input
    <1>5. \A t : CallsWith(t)' = CallsWith(t)
        BY <1>1 DEF input, CallsWith
    <1>6. CounterAgrees'
        BY <1>1, <1>5 DEF IInv, CounterAgrees, input
    <1>7. RowsAreTheMessages'
        BY <1>1 DEF IInv, RowsAreTheMessages, Ended, input
    <1>8. NoReport \in [reported : SUBSET Types, missing : SUBSET Types, total : Nat]
        BY DEF NoReport
    <1>9. ReportTyped' /\ ReportIsTrue'
        <2>1. CASE DoneCounting
            <3>1. processor = "count" /\ processor' = "count"
                  /\ report' = IF info THEN ReportOf(messages_, Types) ELSE NoReport
                BY <1>1, <2>1 DEF DoneCounting, input
            <3>2. /\ DOMAIN messages_ = {t \in Types : CallsWith(t) # {}}
                  /\ TotalOf(messages_, DOMAIN messages_) =
                         Cardinality({i \in 1 .. calls : file.blocks[i].type \in Types})
                  /\ TotalOf(messages_, DOMAIN messages_) \in Nat
                BY <1>1, <3>1, TotalIsTrue DEF IInv
            <3>3. DOMAIN messages_ \intersect Types = DOMAIN messages_
                BY <3>2
            <3>4. ReportOf(messages_, Types) =
                      [reported |-> DOMAIN messages_,
                       missing  |-> Types \ DOMAIN messages_,
                       total    |-> TotalOf(messages_, DOMAIN messages_)]
                BY <3>3 DEF ReportOf, Missing
            <3>5. ReportTyped'
                BY <1>8, <3>1, <3>2, <3>4 DEF ReportTyped
            <3>6. ReportIsTrue'
                BY <1>1, <1>5, <3>1, <3>2, <3>4 DEF ReportIsTrue, input
            <3> QED
                BY <3>5, <3>6
        <2>2. CASE DoneElse
            <3>1. processor # "count" /\ processor' = processor /\ info' = info
                  /\ report' = IF info /\ processor # "parquet"
                               THEN [NoReport EXCEPT !.total = count_] ELSE NoReport
                BY <1>1, <2>2 DEF DoneElse, input
            <3>2. [NoReport EXCEPT !.total = count_] =
                      [reported |-> {}, missing |-> {}, total |-> count_]
                BY DEF NoReport
            <3>3. ReportTyped'
                BY <1>1, <1>8, <3>1, <3>2 DEF ReportTyped, Kinds
            <3>4. processor \in {"dump", "hdf5"} /\ info => count_ = calls
                BY <1>1 DEF IInv, Counts, Writers
            <3>5. ReportIsTrue'
                BY <1>1, <3>1, <3>2, <3>4 DEF ReportIsTrue
            <3> QED
                BY <3>3, <3>5
        <2> QED
            BY <2>1, <2>2
    <1> QED
        BY <1>2, <1>3, <1>4, <1>6, <1>7, <1>9 DEF IInv

LEMMA InitIInv == Init => IInv
    <1> SUFFICES ASSUME Init PROVE IInv
        OBVIOUS
    <1> USE DEF Init
    <1>1. Len(file.blocks) \in Nat
        BY FilesAssumption
    <1>2. messages_ = NoMessages /\ DOMAIN messages_ = {}
        BY DEF NoMessages
    <1>3. rows = [t \in Types |-> << >>] /\ << >> \in Seq(Nat \ {0})
        OBVIOUS
    <1>4. disk \in [Types -> {"absent", "earlier"}]
        BY DEF Left
    <1>5. Kinds
        BY <1>1, <1>2, <1>3, <1>4 DEF Kinds
    <1>6. pc \in {"truncate", "construct", "check_type"}
          /\ (processor = "hdf5" => pc = "truncate")
          /\ (processor \in Writers => pc \in {"truncate", "construct"})
        BY DEF Writers
    <1>7. Flags /\ Controls /\ Durations /\ Counts
        BY <1>6 DEF Flags, Controls, Durations, Counts
    <1>8. ReportTyped
        BY DEF ReportTyped, NoReport
    <1>9. Sinks
        BY <1>6 DEF Sinks, Left
    <1>10. CounterAgrees
        BY <1>2 DEF CounterAgrees, CallsWith, NoMessages
    <1>11. RowsAreTheMessages
        BY <1>3 DEF RowsAreTheMessages, Range
    <1>12. ReportIsTrue
        BY <1>6 DEF ReportIsTrue
    <1> QED
        BY <1>5, <1>7, <1>8, <1>9, <1>10, <1>11, <1>12 DEF IInv

-----------------------------------------------------------------------------
(* The inductive invariant holds in every reachable state.                 *)
THEOREM Invariance == Spec => []IInv
    <1>1. IInv /\ [Next]_vars => IInv'
        BY StepKinds, PassingIInv, CountBlockIInv, DumpBlockIInv, WriteBlockIInv,
           WriteThrowsIInv, DoneIInv DEF Working
    <1> QED
        BY InitIInv, <1>1, PTL DEF Spec

(* Type correctness of run<Processor>, its processor and its outputs.      *)
THEOREM TypeCorrect == Spec => []TypeOK
    <1>1. IInv => TypeOK
        BY DEF IInv, Kinds, Flags, Controls, ReportTyped, TypeOK
    <1> QED
        BY Invariance, <1>1, PTL

(* message_counter knows of each type how many messages were delivered and *)
(* the numbers of the first and the last.                                  *)
THEOREM CounterCorrect == Spec => []CounterAgrees
    <1>1. IInv => CounterAgrees
        BY DEF IInv
    <1> QED
        BY Invariance, <1>1, PTL

(* The rows that hdf5_writer and parquet_writer have taken are the         *)
(* delivered messages, each once, in order and with its number.            *)
THEOREM RowsCorrect == Spec => []RowsAreTheMessages
    <1>1. IInv => RowsAreTheMessages
        BY DEF IInv
    <1> QED
        BY Invariance, <1>1, PTL

(* done() reports every type as seen or missing, and the right total.      *)
THEOREM ReportCorrect == Spec => []ReportIsTrue
    <1>1. IInv => ReportIsTrue
        BY DEF IInv
    <1> QED
        BY Invariance, <1>1, PTL

(* No output mixes two runs once reading has begun, and every one is       *)
(* closed or broken when the program is over.                              *)
THEOREM OutputsCorrect == Spec => []OutputsOfOneRun
    <1>1. IInv => OutputsOfOneRun
        BY DEF IInv, Sinks, OutputsOfOneRun
    <1> QED
        BY Invariance, <1>1, PTL

(* done() is told how long the processing took, or the attempt.            *)
THEOREM DurationCorrect == Spec => DurationMeasured
    <1>1. ASSUME IInv, [Next]_vars
          PROVE  [/\ pc = "returned" /\ pc' = "done" => duration' = "processing"
                  /\ pc = "thrown" /\ pc' = "done" => duration' = "whole"]_vars
        <2>1. SUFFICES ASSUME pc \in {"returned", "thrown"}, pc' = "done"
                       PROVE  /\ pc = "returned" => duration' = "processing"
                              /\ pc = "thrown" => duration' = "whole"
            OBVIOUS
        <2>2. LeaveTry
            BY <1>1, <2>1
            DEF Next, Step, vars, Truncate, TruncateThrows, MakeSink, MakeSinkThrows,
                CloseSink, CloseFails, Constructed, CheckType, ReaderThrows, CountBlock,
                DumpBlock, WriteBlock, DecodeThrows, WriteThrows, ReaderReturns,
                DoneCounting, DoneElse, Destroyed, Killed
        <2> QED
            BY <1>1, <2>1, <2>2 DEF IInv, Durations, LeaveTry, SentrySets
    <1> QED
        BY Invariance, <1>1, PTL DEF Spec, DurationMeasured
=============================================================================
