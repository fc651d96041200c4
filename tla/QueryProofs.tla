----------------------------- MODULE QueryProofs -----------------------------
(***************************************************************************)
(* Proofs about what answers a query: ExactSearch, for any files, literals *)
(* and limits, and QueryPlan, for any map, plans and limits.               *)
(***************************************************************************)
EXTENDS ExactSearch, QueryPlan, FiniteSetTheorems, SequenceTheorems,
        NaturalsInduction, WellFoundedInduction, TLAPS

(***************************************************************************)
(* ExactSearch.                                                            *)
(***************************************************************************)
(* While an rg runs, it is for a literal. *)
TypeInv == TypeOK /\ (pc \in {"reading", "waiting", "broken"} => lit \in Literals)

LEMMA LeastType ==
    ASSUME NEW a \in Nat, NEW b \in Nat
    PROVE  Least(a, b) \in Nat /\ Least(a, b) <= a /\ Least(a, b) <= b
  BY DEF Least

LEMMA Numbers ==
    ASSUME TypeOK
    PROVE  /\ lit \in Nat /\ 1 <= lit /\ lit <= N + 1 /\ N \in Nat
           /\ left \in Nat /\ left <= MaxBytes /\ MaxBytes \in Nat
           /\ read \in Nat /\ written \in Nat /\ consumed \in Nat
           /\ Len(results) \in Nat /\ MaxResults \in Nat
<1>1. results \in Seq(Lines) /\ lit \in 1..(N + 1) /\ left \in 0..MaxBytes
  BY DEF TypeOK
<1>2. Len(results) \in Nat
  BY <1>1, LenProperties
<1>3. read \in Nat /\ written \in Nat /\ consumed \in Nat
  BY DEF TypeOK
<1> QED
  BY <1>1, <1>2, <1>3, SizeAssumption

LEMMA FiniteLines == IsFiniteSet(Lines)
<1>1. IsFiniteSet(Literals) /\ IsFiniteSet(1..MaxLines) /\ IsFiniteSet(Files)
  BY FS_Interval, SizeAssumption DEF Literals
<1> DEFINE searched == Hints \union {Root}
           T == (Literals \X searched) \X (Files \X (1..MaxLines))
           F == [l \in Lines |-> <<<<l.lit, l.path>>, <<l.file, l.line>>>>]
<1>a. IsFiniteSet(searched)
  BY FS_AddElement, HintAssumption
<1>2. IsFiniteSet(T)
  <2> HIDE DEF searched
  <2>1. IsFiniteSet(Literals \X searched) /\ IsFiniteSet(Files \X (1..MaxLines))
    BY <1>1, <1>a, FS_Product
  <2> QED
    BY <2>1, FS_Product
<1>3. F \in [Lines -> T] /\ \A k, l \in Lines : F[k] = F[l] => k = l
  BY DEF Lines
<1>4. F \in Injection(Lines, T)
  BY <1>3 DEF Injection, IsInjective
<1> HIDE DEF F, T
<1> QED
  BY <1>2, <1>4, FS_Injection DEF T

LEMMA OutputType ==
    ASSUME TypeInv, NEW max \in Nat
    PROVE  Outputs(max) \subseteq Seq(Lines)
<1> DEFINE lines == Printed(max)
<1>1. lines \subseteq Lines
  BY DEF Printed
<1>2. IsFiniteSet(lines)
  BY <1>1, FiniteLines, FS_Subset
<1>3. Cardinality(lines) \in Nat
  BY <1>2, FS_CardinalityType
<1>4. [1..Cardinality(lines) -> lines] \subseteq Seq(Lines)
  BY <1>1, <1>3
<1> QED
  BY <1>4 DEF Outputs

(* What is taken from a literal's output is no more than there is room. *)
LEMMA TakenType ==
    ASSUME TypeInv, Len(results) <= MaxResults
    PROVE  LET lines == ParseRGOutput(Least(read, left))
               taken == results \o SubSeq(lines, 1, Least(Len(lines), MaxResults - Len(results)))
           IN  taken \in Seq(Lines) /\ Len(taken) <= MaxResults
<1> DEFINE bytes == Least(read, left)
           headers == {i \in 1..Len(output) : LineBytes * (i - 1) + HeaderBytes <= bytes}
           lines == ParseRGOutput(bytes)
           room == MaxResults - Len(results)
           taken == SubSeq(lines, 1, Least(Len(lines), room))
<1>1. output \in Seq(Lines) /\ Len(output) \in Nat /\ results \in Seq(Lines) /\ Len(results) \in Nat
  <2>1. output \in Seq(Lines) /\ results \in Seq(Lines)
    BY DEF TypeInv, TypeOK
  <2> QED
    BY <2>1, LenProperties
<1>2. Cardinality(headers) \in 0..Len(output)
  <2> DEFINE n == Len(output)
  <2>0. n \in Nat
    BY <1>1
  <2> HIDE DEF n
  <2>1. IsFiniteSet(1..n) /\ Cardinality(1..n) = n
    <3>1. IsFiniteSet(1..n) /\ Cardinality(1..n) = IF 1 > n THEN 0 ELSE n - 1 + 1
      BY <2>0, FS_Interval
    <3> QED
      BY <2>0, <3>1
  <2>2. IsFiniteSet(headers) /\ Cardinality(headers) <= n
    BY <2>1, FS_Subset DEF n
  <2> QED
    BY <2>0, <2>2, FS_CardinalityType DEF n
<1>3. lines \in Seq(Lines)
  <2>1. lines = SubSeq(output, 1, Cardinality(headers))
    BY DEF ParseRGOutput
  <2>2. \A i \in 1..Cardinality(headers) : output[i] \in Lines
    BY <1>1, <1>2
  <2> HIDE DEF headers, lines
  <2> QED
    BY <1>2, <2>1, <2>2, SubSeqProperties
<1>4. room \in Nat /\ Len(lines) \in Nat
  BY <1>1, <1>3, SizeAssumption
<1>5. Least(Len(lines), room) \in Nat /\ Least(Len(lines), room) <= room
      /\ Least(Len(lines), room) <= Len(lines)
  BY <1>4, LeastType
<1>6. taken \in Seq(Lines) /\ Len(taken) <= room
  <2> HIDE DEF lines, room
  <2>1. \A i \in 1..Least(Len(lines), room) : lines[i] \in Lines
    BY <1>3, <1>5
  <2> QED
    BY <1>4, <1>5, <2>1, SubSeqProperties
<1>7. results \o taken \in Seq(Lines) /\ Len(results \o taken) = Len(results) + Len(taken)
  BY <1>1, <1>6, ConcatProperties
<1> HIDE DEF taken, room
<1>8. Len(results \o taken) <= MaxResults
  <2>1. Len(taken) \in Nat
    BY <1>6
  <2> QED
    BY <1>1, <1>6, <1>7, <2>1, SizeAssumption DEF room
<1> QED
  BY <1>7, <1>8 DEF taken, room

-----------------------------------------------------------------------------
(* The inductive invariant: what was read is paid for, but for the byte    *)
(* past the limit, after which nothing is left to read with.               *)

Accounts ==
    /\ pc \notin {"reading", "waiting", "broken"} =>
         consumed + left <= MaxBytes \/ (left = 0 /\ consumed <= MaxBytes + 1)
    /\ pc \in {"reading", "waiting", "broken"} =>
         read <= left + 1 /\ consumed + left <= MaxBytes + read

Inv == TypeInv /\ Len(results) <= MaxResults /\ Accounts

LEMMA InvInit == Init => Inv
<1> SUFFICES ASSUME Init PROVE Inv
  OBVIOUS
<1>1. results = <<>> /\ output = <<>> /\ Len(results) = 0
  BY DEF Init
<1>2. lit \in 1..(N + 1) /\ left \in 0..MaxBytes /\ 0 <= MaxResults
  BY SizeAssumption DEF Init
<1>3. results \in Seq(Lines) /\ output \in Seq(Lines)
  BY <1>1, EmptySeq
<1>4. TypeOK
  BY <1>2, <1>3 DEF Init, TypeOK
<1>5. Accounts
  BY SizeAssumption DEF Init, Accounts
<1> QED
  BY <1>1, <1>2, <1>4, <1>5 DEF Init, Inv, TypeInv

(* Everything else is as it was, and rg or the clock move on. *)
LEMMA InvOutside ==
    ASSUME Inv, RGWrites \/ RGEnds \/ Deadline \/ Kill
    PROVE  Inv'
<1>1. UNCHANGED <<matches, hints, pc, lit, left, results, truncated, failed, notes, output, read,
                  whole, consumed>>
  BY DEF RGWrites, RGEnds, Deadline, Kill, response, process, history
<1>2. TypeOK /\ rg' \in {"none", "writing", "exited", "failed", "killed"} /\ expired' \in BOOLEAN
  BY DEF RGWrites, RGEnds, Deadline, Kill, Inv, TypeInv, TypeOK, process
<1>3. written' \in Nat
  BY <1>2, Numbers DEF RGWrites, RGEnds, Deadline, Kill, process
<1>4. TypeOK'
  BY <1>1, <1>2, <1>3 DEF TypeOK
<1> QED
  BY <1>1, <1>4 DEF Inv, TypeInv, Accounts

LEMMA PaidFor ==
    ASSUME Inv, pc \in {"waiting", "broken"}, Pay, consumed' = consumed
    PROVE  /\ left' \in 0..MaxBytes
           /\ consumed' + left' <= MaxBytes \/ (left' = 0 /\ consumed' <= MaxBytes + 1)
<1>1. left \in 0..MaxBytes /\ read \in Nat /\ consumed \in Nat /\ MaxBytes \in Nat
  BY SizeAssumption DEF Inv, TypeInv, TypeOK
<1>2. read <= left + 1 /\ consumed + left <= MaxBytes + read
  BY DEF Inv, Accounts
<1> QED
  BY <1>1, <1>2 DEF Pay, Least

LEMMA FailType ==
    ASSUME TypeOK, lit \in Literals, Fail
    PROVE  /\ lit' \in 1..(N + 1) /\ failed' \subseteq Literals /\ truncated' \in BOOLEAN
           /\ notes' \subseteq {"unavailable", "skipped", "timed out"} /\ pc' \in {"loop", "done"}
<1>1. lit \in 1..N /\ N \in Nat
  BY SizeAssumption DEF Literals
<1>2. lit' = lit \/ lit' = lit + 1
  BY DEF Fail
<1>3. lit' \in 1..(N + 1)
  BY <1>1, <1>2
<1> QED
  BY <1>3 DEF Fail, Return, TypeOK

LEMMA InvSearch ==
    ASSUME Inv, Search
    PROVE  Inv'
<1>0. TypeOK /\ N \in Nat
  BY SizeAssumption DEF Inv, TypeInv
<1>1. CASE Start
  <2>1. TypeOK'
    BY <1>0, <1>1 DEF Start, Return, TypeOK, process, history
  <2> QED
    BY <1>1, <2>1 DEF Start, Return, Inv, TypeInv, Accounts, process, history
<1>2. CASE StopAtLimit \/ AllSearched
  <2>1. TypeOK'
    BY <1>0, <1>2 DEF StopAtLimit, AllSearched, Return, TypeOK, response, process, history
  <2> QED
    BY <1>2, <2>1 DEF StopAtLimit, AllSearched, Return, Inv, TypeInv, Accounts, response, process, history
<1>3. CASE StartRG
  <2>1. lit \in Literals /\ Len(results) \in Nat
    BY <1>0, <1>3, Numbers DEF StartRG, CanSearch, Literals
  <2>2. MaxResults - Len(results) \in Nat
    BY <1>3, <2>1, SizeAssumption DEF StartRG, CanSearch
  <2>3. output' \in Seq(Lines)
    BY <1>3, <2>2, OutputType DEF StartRG, Inv
  <2>4. TypeOK'
    BY <1>0, <1>3, <2>3 DEF StartRG, TypeOK, response, history
  <2>5. Accounts'
    <3>1. consumed + left <= MaxBytes
      BY <1>0, <1>3, Numbers DEF StartRG, CanSearch, Inv, Accounts
    <3>2. pc' = "reading" /\ read' = 0 /\ consumed' = consumed /\ left' = left
      BY <1>3 DEF StartRG, history
    <3> QED
      BY <1>0, <3>1, <3>2, Numbers DEF Accounts
  <2> QED
    BY <1>3, <2>1, <2>4, <2>5 DEF StartRG, Inv, TypeInv, Literals, response
<1>4. CASE RGNotStarted
  <2>1. lit \in Literals
    BY <1>0, <1>4, Numbers DEF RGNotStarted, CanSearch, Literals
  <2>2. TypeOK'
    <3>1. lit' \in 1..(N + 1) /\ failed' \subseteq Literals /\ truncated' \in BOOLEAN
          /\ notes' \subseteq {"unavailable", "skipped", "timed out"} /\ pc' \in {"loop", "done"}
      BY <1>0, <1>4, <2>1, FailType DEF RGNotStarted
    <3> QED
      BY <1>0, <1>4, <3>1 DEF RGNotStarted, TypeOK, process, history
  <2> QED
    BY <1>4, <2>2 DEF RGNotStarted, CanSearch, Fail, Return, Inv, TypeInv, Accounts, process, history
<1>5. CASE Read
  <2>1. TypeOK'
    <3>1. read' \in Nat /\ consumed' \in Nat
      BY <1>0, <1>5, Numbers DEF Read
    <3> QED
      BY <1>0, <1>5, <3>1 DEF Read, TypeOK, response
  <2>2. Accounts'
    BY <1>0, <1>5, Numbers DEF Read, Inv, Accounts
  <2> QED
    BY <1>5, <2>1, <2>2 DEF Read, Inv, TypeInv, response
<1>6. CASE StopReading \/ ReadFails
  <2>1. TypeOK'
    BY <1>0, <1>6 DEF StopReading, ReadFails, TypeOK, response, process, history
  <2> QED
    BY <1>6, <2>1 DEF StopReading, ReadFails, Inv, TypeInv, Accounts, response, process, history
<1>7. CASE RGFailed
  <2>1. pc \in {"waiting", "broken"} /\ lit \in Literals /\ Pay /\ consumed' = consumed
    BY <1>7 DEF RGFailed, Inv, TypeInv, history
  <2>2. TypeOK'
    <3>1. lit' \in 1..(N + 1) /\ failed' \subseteq Literals /\ truncated' \in BOOLEAN
          /\ notes' \subseteq {"unavailable", "skipped", "timed out"} /\ pc' \in {"loop", "done"}
      BY <1>0, <1>7, <2>1, FailType DEF RGFailed
    <3>2. left' \in 0..MaxBytes
      BY <2>1, PaidFor
    <3> QED
      BY <1>0, <1>7, <3>1, <3>2 DEF RGFailed, TypeOK, history
  <2>3. pc' \notin {"reading", "waiting", "broken"} /\ results' = results
    BY <1>7 DEF RGFailed, Fail, Return
  <2> QED
    BY <2>1, <2>2, <2>3, PaidFor DEF Inv, TypeInv, Accounts
<1>8. CASE TakeResults
  <2>1. pc = "waiting" /\ lit \in Literals /\ Pay /\ consumed' = consumed
    BY <1>8 DEF TakeResults, Inv, TypeInv
  <2>2. results' \in Seq(Lines) /\ Len(results') <= MaxResults
    BY <1>8, TakenType DEF TakeResults, Inv
  <2>3. truncated' \in BOOLEAN /\ whole' \subseteq Literals
    BY <1>0, <1>8, <2>1 DEF TakeResults, TypeOK
  <2>4. left' \in 0..MaxBytes /\ lit' \in 1..(N + 1) /\ pc' = "loop" /\ rg' = "none"
    BY <1>0, <1>8, <2>1, PaidFor DEF TakeResults, Literals
  <2>5. TypeOK'
    BY <1>0, <1>8, <2>1, <2>2, <2>3, <2>4 DEF TakeResults, TypeOK
  <2> QED
    BY <2>1, <2>2, <2>4, <2>5, PaidFor DEF Inv, TypeInv, Accounts
<1> QED
  BY <1>1, <1>2, <1>3, <1>4, <1>5, <1>6, <1>7, <1>8 DEF Search

LEMMA InvNext == Inv /\ [Next]_vars => Inv'
<1> SUFFICES ASSUME Inv, [Next]_vars PROVE Inv'
  OBVIOUS
<1>1. CASE UNCHANGED vars
  BY <1>1 DEF vars, response, process, history, Inv, TypeInv, TypeOK, Accounts
<1> QED
  BY <1>1, InvOutside, InvSearch DEF Next, Done

(* The search, its answer and its process are well typed, for any files,   *)
(* literals and limits: there is never less than nothing left to read.     *)
THEOREM TypeCorrect == Spec => []TypeOK
<1>1. Inv => TypeOK
  BY DEF Inv, TypeInv
<1> QED
  BY <1>1, InvInit, InvNext, PTL DEF Spec

(* However many literals share the results and the bytes, and however      *)
(* their processes end, no more is returned or read than the plan allows,  *)
(* but for the one byte that shows that there was more.                    *)
THEOREM WithinBudgetAlways == Spec => []WithinBudget
<1>1. Inv => WithinBudget
  <2> SUFFICES ASSUME Inv PROVE WithinBudget
    OBVIOUS
  <2>1. consumed <= MaxBytes + 1
    BY Numbers DEF Inv, TypeInv, Accounts
  <2> QED
    BY <2>1 DEF Inv, WithinBudget
<1> QED
  BY <1>1, InvInit, InvNext, PTL DEF Spec

-----------------------------------------------------------------------------
(* What rg prints, and what the search keeps of it.                        *)

(* The files searched are those the hints ask for: a hint that escapes     *)
(* names no file, and with no other hint the whole repository is searched. *)
LEMMA SearchedInScope ==
    ASSUME hints \subseteq Hints, NEW f \in Files
    PROVE  InScope(f) <=> \E p \in SearchPaths : p \in Hints \union {Root} /\ f \in FilesUnder(p)
  BY HintAssumption DEF FilesUnder, SearchPaths, InScope

(* The output for the literal of the moment: its matching lines, each at   *)
(* most once for each path, and a line of every file that has one.         *)
OutputOfLiteral ==
    /\ \A i \in 1..Len(output) :
         /\ output[i].lit = lit
         /\ InScope(output[i].file)
         /\ output[i].line <= matches[lit][output[i].file]
    /\ \A i, j \in 1..Len(output) : output[i] = output[j] => i = j
    /\ \A f \in Files : InScope(f) /\ matches[lit][f] > 0 =>
         \E i \in 1..Len(output) : output[i].file = f

(* rg prints as many lines as there are, none of them twice: it prints     *)
(* them all.                                                               *)
LEMMA OutputComplete ==
    ASSUME TypeOK, lit \in Literals, NEW max \in Nat \ {0}, NEW o \in Outputs(max)
    PROVE  /\ Len(o) \in Nat /\ DOMAIN o = 1..Len(o)
           /\ \A i \in 1..Len(o) : o[i] \in Printed(max)
           /\ \A i, j \in 1..Len(o) : o[i] = o[j] => i = j
           /\ \A l \in Printed(max) : \E i \in 1..Len(o) : o[i] = l
<1> DEFINE lines == Printed(max)
           n == Cardinality(lines)
<1>1. lines \subseteq Lines
  BY DEF Printed
<1>2. IsFiniteSet(lines) /\ n \in Nat
  BY <1>1, FiniteLines, FS_Subset, FS_CardinalityType
<1>3. o \in [1..n -> lines]
  BY DEF Outputs
<1>4. \A i, j \in 1..n : i < j /\ Searched(o[i]) = Searched(o[j]) => o[i].line < o[j].line
  BY <1>3 DEF Outputs
<1> HIDE DEF lines, n
<1>5. Len(o) = n
  BY <1>2, <1>3
<1>6. ASSUME NEW i \in 1..n, NEW j \in 1..n, o[i] = o[j] PROVE i = j
  <2>1. o[i] \in Lines
    BY <1>1, <1>3
  <2>2. o[i].line \in Nat
    BY <2>1 DEF Lines
  <2>3. ~(i < j) /\ ~(j < i)
    BY <1>4, <1>6, <2>2 DEF Searched
  <2> QED
    BY <1>2, <2>3
<1>7. \A l \in lines : \E i \in 1..n : o[i] = l
  <2>1. o \in Injection(1..n, lines)
    BY <1>3, <1>6 DEF Injection, IsInjective
  <2>2. Cardinality(1..n) = n
    <3>1. Cardinality(1..n) = IF 1 > n THEN 0 ELSE n - 1 + 1
      BY <1>2, FS_Interval
    <3> QED
      BY <1>2, <3>1
  <2>3. o \in Surjection(1..n, lines)
    BY <1>2, <2>1, <2>2, FS_Injection DEF n
  <2> QED
    BY <2>3 DEF Surjection
<1> QED
  BY <1>2, <1>3, <1>5, <1>6, <1>7 DEF lines

LEMMA OutputKnown ==
    ASSUME TypeOK, lit \in Literals, NEW max \in Nat \ {0}, output' \in Outputs(max),
           UNCHANGED <<matches, hints, lit>>
    PROVE  OutputOfLiteral'
<1> DEFINE o == output'
<1>0. /\ Len(o) \in Nat
      /\ \A i \in 1..Len(o) : o[i] \in Printed(max)
      /\ \A i, j \in 1..Len(o) : o[i] = o[j] => i = j
      /\ \A l \in Printed(max) : \E i \in 1..Len(o) : o[i] = l
  BY OutputComplete
<1>1. matches[lit] \in [Files -> 0..MaxLines] /\ hints \subseteq Hints /\ MaxLines \in Nat
  BY SizeAssumption DEF TypeOK
<1>2. ASSUME NEW i \in 1..Len(o)
      PROVE  o[i].lit = lit /\ InScope(o[i].file) /\ o[i].line <= matches[lit][o[i].file]
  <2>1. /\ o[i].lit = lit /\ o[i].path \in SearchPaths /\ o[i].path \in Hints \union {Root}
        /\ o[i].file \in FilesUnder(o[i].path) /\ o[i].file \in Files /\ o[i].line \in Nat
        /\ o[i].line <= Least(matches[lit][o[i].file], max)
    BY <1>0 DEF Printed, Lines
  <2> DEFINE there == matches[lit][o[i].file]
  <2>2. there \in Nat
    BY <1>1, <2>1
  <2>3. Least(there, max) \in Nat /\ Least(there, max) <= there
    BY <2>2, LeastType
  <2>4. o[i].line <= there
    BY <2>1, <2>2, <2>3
  <2> QED
    BY <1>1, <2>1, <2>4, SearchedInScope
<1>3. ASSUME NEW f \in Files, InScope(f), matches[lit][f] > 0
      PROVE  \E i \in 1..Len(o) : o[i].file = f
  <2>0. PICK p \in SearchPaths : p \in Hints \union {Root} /\ f \in FilesUnder(p)
    BY <1>1, <1>3, SearchedInScope
  <2> DEFINE first == [lit |-> lit, path |-> p, file |-> f, line |-> 1]
  <2>1. matches[lit][f] \in 0..MaxLines
    BY <1>1
  <2>2. 1 <= Least(matches[lit][f], max) /\ 1 \in 1..MaxLines
    BY <1>1, <1>3, <2>1 DEF Least
  <2>3. first \in Printed(max)
    BY <1>1, <2>0, <2>2 DEF Printed, Lines
  <2>4. PICK i \in 1..Len(o) : o[i] = first
    BY <1>0, <2>3
  <2> QED
    BY <2>4
<1>4. \A f : InScope(f)' <=> InScope(f)
  BY DEF InScope
<1> QED
  BY <1>0, <1>2, <1>3, <1>4 DEF OutputOfLiteral

LEMMA Monotone ==
    ASSUME NEW a \in Nat, NEW b \in Nat, NEW c \in Nat, a <= b
    PROVE  c * a <= c * b
<1>1. b - a \in Nat /\ c * b = c * a + c * (b - a)
  OBVIOUS
<1>2. c * (b - a) \in Nat /\ c * a \in Nat
  BY <1>1
<1> QED
  BY <1>1, <1>2

(* What is parsed is the first lines of the output, and all of them when   *)
(* at most the last byte, a newline, is not there.                         *)
LEMMA Parsed ==
    ASSUME TypeInv, NEW bytes \in Nat
    PROVE  \E m \in 0..Len(output) :
             /\ ParseRGOutput(bytes) \in Seq(Lines) /\ Len(ParseRGOutput(bytes)) = m
             /\ \A i \in 1..m : ParseRGOutput(bytes)[i] = output[i]
             /\ Bytes(output) <= bytes + 1 => m = Len(output)
<1> DEFINE n == Len(output)
           headers == {i \in 1..n : LineBytes * (i - 1) + HeaderBytes <= bytes}
           m == Cardinality(headers)
<1>1. output \in Seq(Lines) /\ n \in Nat
  BY LenProperties DEF TypeInv, TypeOK
<1> HIDE DEF n
<1>2. IsFiniteSet(1..n) /\ Cardinality(1..n) = n
  <2>1. IsFiniteSet(1..n) /\ Cardinality(1..n) = IF 1 > n THEN 0 ELSE n - 1 + 1
    BY <1>1, FS_Interval
  <2> QED
    BY <1>1, <2>1
<1>3. m \in 0..n
  <2>1. IsFiniteSet(headers) /\ m <= n
    BY <1>2, FS_Subset
  <2> QED
    BY <1>1, <2>1, FS_CardinalityType
<1>4. ParseRGOutput(bytes) = SubSeq(output, 1, m)
  BY DEF ParseRGOutput, n
<1>5. ASSUME Bytes(output) <= bytes + 1 PROVE m = n
  <2>1. ASSUME NEW i \in 1..n PROVE LineBytes * (i - 1) + HeaderBytes <= bytes
    <3>1. LineBytes * (i - 1) <= LineBytes * (n - 1)
      BY <1>1, Monotone, SizeAssumption
    <3>2. LineBytes * n = LineBytes * (n - 1) + LineBytes
      BY <1>1, SizeAssumption
    <3>3. LineBytes * n <= bytes + 1
      BY <1>5 DEF Bytes, n
    <3>4. LineBytes * (i - 1) \in Int /\ LineBytes * (n - 1) \in Int /\ LineBytes * n \in Int
      BY <1>1, SizeAssumption
    <3> QED
      BY <3>1, <3>2, <3>3, <3>4, SizeAssumption
  <2>2. headers = 1..n
    BY <2>1
  <2> QED
    BY <1>2, <2>2
<1> HIDE DEF m
<1>6. \A i \in 1..m : output[i] \in Lines
  BY <1>1, <1>3 DEF n
<1>7. /\ SubSeq(output, 1, m) \in Seq(Lines)
      /\ Len(SubSeq(output, 1, m)) = m
      /\ \A i \in 1..m : SubSeq(output, 1, m)[i] = output[i]
  BY <1>1, <1>3, <1>6, SubSeqProperties
<1> QED
  BY <1>3, <1>4, <1>5, <1>7 DEF n

(* What a literal adds to the answer: the first lines of its output, as    *)
(* many as there is room for; all of them when nothing was cut off.        *)
LEMMA Taken ==
    ASSUME TypeInv, Len(results) <= MaxResults, TakeResults
    PROVE  \E k \in 0..Len(output) :
             /\ Len(results') = Len(results) + k
             /\ \A i \in 1..Len(results) : results'[i] = results[i]
             /\ \A i \in 1..k : results'[Len(results) + i] = output[i]
             /\ (read = Bytes(output) /\ read <= left + 1 /\ Len(output) <= MaxResults - Len(results))
                    => k = Len(output)
             /\ (read = Bytes(output) /\ ~truncated') => k = Len(output)
<1> DEFINE bytes == Least(read, left)
           lines == ParseRGOutput(bytes)
           room == MaxResults - Len(results)
           k == Least(Len(lines), room)
<1>0. /\ TypeOK /\ read \in Nat /\ left \in Nat /\ Len(results) \in Nat /\ room \in Nat
      /\ results \in Seq(Lines)
  <2>1. TypeOK /\ results \in Seq(Lines)
    BY DEF TypeInv, TypeOK
  <2> QED
    BY <2>1, Numbers
<1>1. bytes \in Nat /\ (read <= left + 1 => read <= bytes + 1)
  BY <1>0 DEF Least
<1>2. PICK m \in 0..Len(output) :
        /\ lines \in Seq(Lines) /\ Len(lines) = m
        /\ \A i \in 1..m : lines[i] = output[i]
        /\ Bytes(output) <= bytes + 1 => m = Len(output)
  BY <1>1, Parsed
<1>3. /\ results' = results \o SubSeq(lines, 1, k)
      /\ truncated' = (truncated \/ read > left \/ Len(lines) > room)
  BY DEF TakeResults
<1>4. output \in Seq(Lines) /\ Len(output) \in Nat
  BY LenProperties DEF TypeInv, TypeOK
<1> HIDE DEF bytes, lines, room
<1>5. k \in 0..m /\ (m <= room => k = m)
  BY <1>0, <1>2, <1>4 DEF Least
<1> HIDE DEF k
<1>6. \A i \in 1..k : lines[i] \in Lines
  BY <1>2, <1>4, <1>5, LenProperties
<1>7. /\ SubSeq(lines, 1, k) \in Seq(Lines)
      /\ Len(SubSeq(lines, 1, k)) = k
      /\ \A i \in 1..k : SubSeq(lines, 1, k)[i] = output[i]
  BY <1>2, <1>4, <1>5, <1>6, SubSeqProperties
<1>8. /\ Len(results') = Len(results) + k
      /\ \A i \in 1..(Len(results) + k) :
            results'[i] = IF i <= Len(results) THEN results[i]
                          ELSE SubSeq(lines, 1, k)[i - Len(results)]
  BY <1>0, <1>3, <1>7, ConcatProperties
<1>9. k \in 0..Len(output) /\ k \in Nat
  BY <1>4, <1>5
<1>10. \A i \in 1..Len(results) : results'[i] = results[i]
  BY <1>0, <1>8, <1>9
<1>11. ASSUME NEW i \in 1..k PROVE results'[Len(results) + i] = output[i]
  <2>1. /\ Len(results) + i \in 1..(Len(results) + k) /\ ~(Len(results) + i <= Len(results))
        /\ (Len(results) + i) - Len(results) = i
    BY <1>0, <1>9
  <2> QED
    BY <1>7, <1>8, <2>1
<1>12. (read = Bytes(output) /\ read <= left + 1) => m = Len(output)
  BY <1>1, <1>2
<1>13. (read = Bytes(output) /\ read <= left + 1 /\ Len(output) <= room) => k = Len(output)
  BY <1>5, <1>12
<1>14. (read = Bytes(output) /\ ~truncated') => k = Len(output)
  <2>1. ~truncated' => ~(read > left) /\ ~(Len(lines) > room)
    BY <1>3
  <2>2. ~truncated' => read <= left + 1 /\ m <= room
    BY <1>0, <1>2, <1>4, <2>1
  <2> QED
    BY <1>5, <1>12, <2>2
<1> QED
  BY <1>8, <1>9, <1>10, <1>11, <1>13, <1>14 DEF room

-----------------------------------------------------------------------------
(* The answer.  Literals are searched in order, so that what the answer    *)
(* has of literals before lit is final, and what a literal adds is new.    *)

AnswerKnown ==
    /\ \A i \in 1..Len(results) :
         /\ results[i].lit < lit
         /\ InScope(results[i].file)
         /\ results[i].line <= matches[results[i].lit][results[i].file]
    /\ \A i, j \in 1..Len(results) : results[i] = results[j] => i = j
    /\ \A l \in whole : Represented(l)
    /\ ~truncated => \A l \in Literals \ failed : l < lit => Represented(l)
    /\ pc = "done" /\ ~truncated /\ "unavailable" \notin notes => lit = N + 1

(* What rg printed for lit, and how much of it the search has.             *)
ProcessKnown ==
    /\ pc \in {"reading", "waiting", "broken"} =>
         OutputOfLiteral /\ (rg = "exited" => written = Bytes(output))
    /\ pc = "waiting" => read > left \/ (read = written /\ rg # "writing")

LEMMA RepresentedStays ==
    ASSUME NEW l, Represented(l), UNCHANGED <<matches, hints>>,
           Len(results) \in Nat, Len(results') \in Nat, Len(results) <= Len(results'),
           \A i \in 1..Len(results) : results'[i] = results[i]
    PROVE  Represented(l)'
<1>1. \A i \in 1..Len(results) : i \in 1..Len(results')
  OBVIOUS
<1>2. \A f : InScope(f)' <=> InScope(f)
  BY DEF InScope
<1>3. ASSUME NEW f \in Files, InScope(f), matches[l][f] > 0
      PROVE  \E i \in 1..Len(results') : results'[i].lit = l /\ results'[i].file = f
  BY <1>1, <1>3 DEF Represented
<1> QED
  BY <1>2, <1>3 DEF Represented

(* Steps that add nothing to the answer. *)
LEMMA AnswerStays ==
    ASSUME TypeInv, AnswerKnown, UNCHANGED <<matches, hints, results, whole>>, lit' \in Nat,
           lit <= lit', truncated => truncated',
           failed \subseteq failed', ~truncated' /\ lit' # lit => lit' = lit + 1 /\ lit \in failed',
           pc' = "done" /\ ~truncated' /\ "unavailable" \notin notes' => lit' = N + 1
    PROVE  AnswerKnown'
<1>1. \A f : InScope(f)' <=> InScope(f)
  BY DEF InScope
<1>2. \A l : Represented(l)' <=> Represented(l)
  BY <1>1 DEF Represented
<1>3. lit \in Nat /\ \A i \in 1..Len(results) : results[i].lit \in Nat
  <2>1. TypeOK /\ results \in [1..Len(results) -> Lines]
    BY LenProperties DEF TypeInv, TypeOK
  <2> QED
    BY <2>1, Numbers DEF Lines, Literals
<1>4. \A i \in 1..Len(results) : results[i].lit < lit'
  BY <1>3 DEF AnswerKnown
<1>5. ASSUME ~truncated', NEW l \in Literals \ failed', l < lit' PROVE Represented(l)
  <2>1. (l \in Nat /\ l # lit) \/ lit' = lit
    BY <1>5 DEF Literals
  <2>2. l < lit
    BY <1>3, <1>5, <2>1 DEF Literals
  <2> QED
    BY <1>5, <2>2 DEF AnswerKnown
<1> QED
  BY <1>1, <1>2, <1>4, <1>5 DEF AnswerKnown

LEMMA AnswerFail ==
    ASSUME TypeInv, AnswerKnown, lit \in Literals, Fail,
           UNCHANGED <<matches, hints, results, whole>>
    PROVE  AnswerKnown'
<1>1. lit \in Nat
  BY DEF Literals
<1>2. CASE truncated' = TRUE /\ UNCHANGED <<failed, lit>>
  BY <1>1, <1>2, AnswerStays
<1>3. CASE /\ failed' = failed \union {lit} /\ lit' = lit + 1 /\ pc' = "loop"
           /\ UNCHANGED <<notes, truncated>>
  BY <1>1, <1>3, AnswerStays
<1> QED
  BY <1>2, <1>3 DEF Fail

(* A literal's lines are new: they are of a literal the answer has no line *)
(* of, and its output has none twice.                                      *)
LEMMA AnswerTakes ==
    ASSUME Inv, AnswerKnown, ProcessKnown, TakeResults
    PROVE  AnswerKnown'
<1>0. /\ TypeInv /\ TypeOK /\ Len(results) <= MaxResults /\ lit \in Literals /\ lit \in Nat
      /\ Len(results) \in Nat /\ Len(output) \in Nat /\ read \in Nat /\ left \in Nat
      /\ \A i \in 1..Len(results) : results[i].lit \in Nat
      /\ read <= left + 1
  <2>1. TypeInv /\ TypeOK /\ Len(results) <= MaxResults /\ lit \in Literals /\ read <= left + 1
    BY DEF Inv, TypeInv, TakeResults, Accounts
  <2>2. results \in [1..Len(results) -> Lines] /\ Len(output) \in Nat
    BY <2>1, LenProperties DEF TypeOK
  <2> QED
    BY <2>1, <2>2, Numbers DEF Lines, Literals
<1>1. PICK k \in 0..Len(output) :
        /\ Len(results') = Len(results) + k
        /\ \A i \in 1..Len(results) : results'[i] = results[i]
        /\ \A i \in 1..k : results'[Len(results) + i] = output[i]
        /\ (read = Bytes(output) /\ read <= left + 1 /\ Len(output) <= MaxResults - Len(results))
               => k = Len(output)
        /\ (read = Bytes(output) /\ ~truncated') => k = Len(output)
  BY <1>0, Taken
<1>2. /\ UNCHANGED <<matches, hints, failed, notes>> /\ lit' = lit + 1 /\ pc' = "loop"
      /\ whole' = IF read = Bytes(output) /\ Len(output) <= MaxResults - Len(results)
                  THEN whole \union {lit} ELSE whole
      /\ truncated' = (truncated \/ read > left
                       \/ Len(ParseRGOutput(Least(read, left))) > MaxResults - Len(results))
      /\ pc = "waiting" /\ rg = "exited"
  BY DEF TakeResults
<1>3. OutputOfLiteral /\ written = Bytes(output) /\ (read > left \/ read = written)
  BY <1>2 DEF ProcessKnown
<1>4. \A f : InScope(f)' <=> InScope(f)
  BY <1>2 DEF InScope
<1>5. ASSUME NEW i \in 1..Len(results')
      PROVE  \/ i \in 1..Len(results) /\ results'[i] = results[i]
             \/ /\ i - Len(results) \in 1..k /\ i - Len(results) \in 1..Len(output)
                /\ results'[i] = output[i - Len(results)]
  <2>1. k \in Nat /\ k <= Len(output)
    BY <1>0, <1>1
  <2>2. CASE i <= Len(results)
    BY <1>0, <1>1, <2>2
  <2>3. CASE ~(i <= Len(results))
    <3>1. i - Len(results) \in 1..k /\ Len(results) + (i - Len(results)) = i
      BY <1>0, <1>1, <2>1, <2>3
    <3>2. i - Len(results) \in 1..Len(output)
      BY <1>0, <2>1, <3>1
    <3> QED
      BY <1>1, <3>1, <3>2
  <2> QED
    BY <2>2, <2>3
<1>6. ASSUME NEW i \in 1..Len(results')
      PROVE  /\ results'[i].lit < lit'
             /\ InScope(results'[i].file)
             /\ results'[i].line <= matches[results'[i].lit][results'[i].file]
  <2>1. CASE i \in 1..Len(results) /\ results'[i] = results[i]
    <3>1. results[i].lit < lit
      BY <2>1 DEF AnswerKnown
    <3>2. results[i].lit < lit'
      BY <1>0, <1>2, <2>1, <3>1
    <3> QED
      BY <2>1, <3>2 DEF AnswerKnown
  <2>2. CASE i - Len(results) \in 1..Len(output) /\ results'[i] = output[i - Len(results)]
    <3>1. lit < lit'
      BY <1>0, <1>2
    <3> QED
      BY <1>3, <2>2, <3>1 DEF OutputOfLiteral
  <2> QED
    BY <1>5, <2>1, <2>2
<1>7. ASSUME NEW i \in 1..Len(results'), NEW j \in 1..Len(results'), results'[i] = results'[j]
      PROVE  i = j
  <2>1. ASSUME NEW g \in 1..Len(results), results'[g] = results[g],
               NEW h, h - Len(results) \in 1..Len(output),
               results'[h] = output[h - Len(results)]
        PROVE  results'[g] # results'[h]
    <3>1. results'[g].lit < lit /\ results'[g].lit \in Nat
      BY <1>0, <2>1 DEF AnswerKnown
    <3>2. results'[h].lit = lit
      BY <1>3, <2>1 DEF OutputOfLiteral
    <3> QED
      BY <1>0, <3>1, <3>2
  <2>2. CASE i \in 1..Len(results) /\ results'[i] = results[i]
    <3>1. j \in 1..Len(results) /\ results'[j] = results[j]
      BY <1>5, <1>7, <2>1, <2>2
    <3> QED
      BY <1>7, <2>2, <3>1 DEF AnswerKnown
  <2>3. CASE i - Len(results) \in 1..Len(output) /\ results'[i] = output[i - Len(results)]
    <3>1. j - Len(results) \in 1..Len(output) /\ results'[j] = output[j - Len(results)]
      BY <1>5, <1>7, <2>1, <2>3
    <3>2. i - Len(results) = j - Len(results)
      BY <1>3, <1>7, <2>3, <3>1 DEF OutputOfLiteral
    <3>3. i \in Int /\ j \in Int
      BY <1>0
    <3> QED
      BY <1>0, <3>2, <3>3
  <2> QED
    BY <1>5, <2>2, <2>3
<1>8. Len(results') \in Nat /\ Len(results) <= Len(results')
  BY <1>0, <1>1
<1>9. \A l : Represented(l) => Represented(l)'
  BY <1>0, <1>1, <1>2, <1>8, RepresentedStays
<1>10. ASSUME k = Len(output), NEW l, l = lit PROVE Represented(l)'
  <2>1. ASSUME NEW f \in Files, InScope(f), matches[l][f] > 0
        PROVE  \E i \in 1..Len(results') : results'[i].lit = l /\ results'[i].file = f
    <3>1. PICK i \in 1..Len(output) : output[i].file = f /\ output[i].lit = lit
      BY <1>3, <1>10, <2>1 DEF OutputOfLiteral
    <3>2. Len(results) + i \in 1..Len(results') /\ results'[Len(results) + i] = output[i]
      BY <1>0, <1>1, <1>10, <3>1
    <3> QED
      BY <1>10, <3>1, <3>2
  <2> QED
    BY <1>2, <1>4, <2>1 DEF Represented
<1>11. ASSUME NEW l \in whole' PROVE Represented(l)'
  <2>1. CASE l \in whole
    BY <1>9, <2>1 DEF AnswerKnown
  <2>2. CASE l \notin whole
    <3>1. l = lit /\ read = Bytes(output) /\ Len(output) <= MaxResults - Len(results)
      BY <1>2, <1>11, <2>2
    <3> QED
      BY <1>0, <1>1, <1>10, <3>1
  <2> QED
    BY <2>1, <2>2
<1>12. ASSUME ~truncated', NEW l \in Literals \ failed', l < lit' PROVE Represented(l)'
  <2>1. ~truncated /\ ~(read > left)
    BY <1>2, <1>12
  <2>2. k = Len(output)
    BY <1>1, <1>3, <1>12, <2>1
  <2>3. l = lit \/ l < lit
    BY <1>0, <1>2, <1>12 DEF Literals
  <2>4. CASE l = lit
    BY <1>10, <2>2, <2>4
  <2>5. CASE l < lit
    BY <1>2, <1>9, <1>12, <2>1, <2>5 DEF AnswerKnown
  <2> QED
    BY <2>3, <2>4, <2>5
<1> QED
  BY <1>2, <1>4, <1>6, <1>7, <1>11, <1>12 DEF AnswerKnown

LEMMA AnswerStep ==
    ASSUME Inv, AnswerKnown, ProcessKnown, [Next]_vars
    PROVE  AnswerKnown'
<1>0. TypeInv /\ TypeOK /\ lit \in Nat /\ N \in Nat /\ lit <= N + 1
  BY Numbers DEF Inv, TypeInv
<1>1. CASE Start
  BY <1>0, <1>1, AnswerStays DEF Start, Return, history, process
<1>2. CASE StopAtLimit
  BY <1>0, <1>2, AnswerStays DEF StopAtLimit, Return, history, process
<1>3. CASE AllSearched
  BY <1>0, <1>3, AnswerStays DEF AllSearched, Return, history, process, response
<1>4. CASE RGNotStarted
  <2>1. lit \in Literals
    BY <1>0, <1>4, Numbers DEF RGNotStarted, CanSearch, Literals
  <2> QED
    BY <1>0, <1>4, <2>1, AnswerFail DEF RGNotStarted, history, process
<1>5. CASE RGFailed
  BY <1>0, <1>5, AnswerFail DEF RGFailed, history, TypeInv
<1>6. CASE TakeResults
  BY <1>6, AnswerTakes
<1>7. CASE StartRG \/ Read \/ StopReading \/ ReadFails \/ RGWrites \/ RGEnds \/ Deadline \/ Kill
  <2>1. /\ UNCHANGED <<matches, hints, lit, results, truncated, failed, notes, whole>>
        /\ pc' = "done" => pc = "done"
    BY <1>7 DEF StartRG, Read, StopReading, ReadFails, RGWrites, RGEnds, Deadline, Kill, response, process,
                history
  <2> QED
    BY <1>0, <2>1, AnswerStays DEF AnswerKnown
<1>8. CASE UNCHANGED vars
  <2>1. UNCHANGED <<matches, hints, pc, lit, results, truncated, failed, notes, whole>>
    BY <1>8 DEF vars, response, history
  <2> QED
    BY <1>0, <2>1, AnswerStays DEF AnswerKnown
<1> QED
  BY <1>1, <1>2, <1>3, <1>4, <1>5, <1>6, <1>7, <1>8 DEF Next, Search, Done

LEMMA ProcessStep ==
    ASSUME Inv, ProcessKnown, [Next]_vars
    PROVE  ProcessKnown'
<1>0. TypeInv /\ TypeOK
  BY DEF Inv, TypeInv
<1>1. ASSUME UNCHANGED <<matches, hints, lit, output>>, OutputOfLiteral PROVE OutputOfLiteral'
  BY <1>1 DEF OutputOfLiteral, InScope
<1>2. CASE StartRG
  <2>1. MaxResults - Len(results) \in Nat \ {0} /\ lit \in Literals
    BY <1>0, <1>2, Numbers DEF StartRG, CanSearch, Literals
  <2>2. OutputOfLiteral'
    BY <1>0, <1>2, <2>1, OutputKnown DEF StartRG
  <2> QED
    BY <1>2, <2>2 DEF StartRG, ProcessKnown
<1>3. CASE Start \/ StopAtLimit \/ AllSearched \/ RGNotStarted \/ RGFailed \/ TakeResults
  <2>1. pc' \in {"loop", "done"}
    BY <1>3 DEF Start, StopAtLimit, AllSearched, RGNotStarted, RGFailed, TakeResults, Fail, Return
  <2> QED
    BY <2>1 DEF ProcessKnown
<1>4. CASE Read
  BY <1>1, <1>4 DEF Read, ProcessKnown, response
<1>5. CASE StopReading \/ ReadFails
  BY <1>1, <1>5 DEF StopReading, ReadFails, ProcessKnown, response, process, history
<1>6. CASE RGWrites
  BY <1>1, <1>6 DEF RGWrites, ProcessKnown, response, history
<1>7. CASE RGEnds
  BY <1>1, <1>7 DEF RGEnds, ProcessKnown, response, history
<1>8. CASE Deadline
  BY <1>1, <1>8 DEF Deadline, ProcessKnown, response, process, history
<1>9. CASE Kill
  BY <1>1, <1>9 DEF Kill, ProcessKnown, response, history
<1>10. CASE UNCHANGED vars
  BY <1>1, <1>10 DEF vars, ProcessKnown, response, process, history
<1> QED
  BY <1>2, <1>3, <1>4, <1>5, <1>6, <1>7, <1>8, <1>9, <1>10 DEF Next, Search, Done

LEMMA AnswerInvariant == Spec => [](Inv /\ AnswerKnown /\ ProcessKnown)
<1>1. Init => AnswerKnown /\ ProcessKnown
  <2> SUFFICES ASSUME Init PROVE AnswerKnown /\ ProcessKnown
    OBVIOUS
  <2>1. Len(results) = 0 /\ lit = 1 /\ pc = "start" /\ whole = {}
    BY DEF Init
  <2>2. \A l \in Literals : ~(l < 1)
    BY DEF Literals
  <2> QED
    BY <2>1, <2>2 DEF AnswerKnown, ProcessKnown
<1> QED
  BY <1>1, InvInit, InvNext, AnswerStep, ProcessStep, PTL DEF Spec

(* Every result is a line that matches its literal, in a file that the     *)
(* hints ask for, whatever the limits cut off; one hint gives it once, and *)
(* it is there again only when another hint covers its file, too.          *)
THEOREM ResultsAreMatchesAlways == Spec => []ResultsAreMatches
<1>1. AnswerKnown => ResultsAreMatches
  BY DEF AnswerKnown, ResultsAreMatches
<1> QED
  BY <1>1, AnswerInvariant, PTL

(* What a literal found in full is in the answer, and an answer that says  *)
(* neither "truncated" nor of which literals rg failed has every file that *)
(* matches.                                                                *)
THEOREM NoFileLostSilentlyAlways == Spec => []NoFileLostSilently
<1>1. Inv /\ AnswerKnown => NoFileLostSilently
  <2> SUFFICES ASSUME Inv, AnswerKnown PROVE NoFileLostSilently
    OBVIOUS
  <2>1. \A l \in Literals : l < N + 1
    BY SizeAssumption DEF Literals
  <2> QED
    BY <2>1 DEF AnswerKnown, NoFileLostSilently
<1> QED
  BY <1>1, AnswerInvariant, PTL

(***************************************************************************)
(* QueryPlan: sums, by induction over the sets of naturals that hold       *)
(* what has to be shown, and lists that InOrder makes.                     *)
(***************************************************************************)
(* A set of numbers has a least one. *)
LEMMA LeastIn ==
    ASSUME NEW S \in SUBSET Nat, S # {}
    PROVE  Min(S) \in S /\ \A y \in S : Min(S) <= y
<1>1. PICK x \in S : \A y \in S : ~(<<y, x>> \in OpToRel(<, Nat))
  BY NatLessThanWellFounded, WFMin
<1>2. ASSUME NEW y \in S PROVE x <= y
  <2>1. x \in Nat /\ y \in Nat
    OBVIOUS
  <2>2. y < x => <<y, x>> \in OpToRel(<, Nat)
    BY <2>1 DEF OpToRel
  <2>3. ~(y < x)
    BY <1>1, <2>2, Zenon
  <2> QED
    BY <2>1, <2>3
<1> QED
  BY <1>2 DEF Min

(* Induction on the naturals, of the members of a set. *)
LEMMA Inductive ==
    ASSUME NEW S, 0 \in S, \A k \in Nat : k \in S => k + 1 \in S
    PROVE  Nat \subseteq S
<1> SUFFICES ASSUME Nat \ S # {} PROVE FALSE
  OBVIOUS
<1> DEFINE m == Min(Nat \ S)
<1>1. m \in Nat \ S /\ \A y \in Nat \ S : m <= y
  BY LeastIn
<1> HIDE DEF m
<1>2. m # 0 /\ m - 1 \in Nat /\ m - 1 < m
  BY <1>1
<1>3. m - 1 \in S
  BY <1>1, <1>2
<1> QED
  BY <1>1, <1>2, <1>3

(* The recursive function of Total exists. *)
LEMMA SumExists ==
    ASSUME NEW n \in Nat, NEW f \in [1..n -> Nat]
    PROVE  \E sum : sum \in [0..n -> Nat] /\ sum = [i \in 0..n |-> IF i = 0 THEN 0 ELSE sum[i - 1] + f[i]]
<1> DEFINE Sum(m, s) == s \in [0..m -> Nat] /\ s = [i \in 0..m |-> IF i = 0 THEN 0 ELSE s[i - 1] + f[i]]
           Good == {m \in Nat : m <= n => \E s : Sum(m, s)}
<1>1. 0 \in Good
  <2>1. Sum(0, [i \in 0..0 |-> 0])
    OBVIOUS
  <2> QED BY <2>1
<1>2. ASSUME NEW m \in Nat, m \in Good PROVE m + 1 \in Good
  <2> HIDE DEF Sum
  <2> SUFFICES ASSUME m + 1 <= n PROVE \E s : Sum(m + 1, s)
    OBVIOUS
  <2> USE DEF Sum
  <2>1. PICK s : Sum(m, s)
    BY <1>2
  <2> DEFINE t == [i \in 0..(m + 1) |-> IF i = m + 1 THEN s[m] + f[m + 1] ELSE s[i]]
  <2>2. s \in [0..m -> Nat] /\ m + 1 \in 1..n
    BY <2>1
  <2>3. t \in [0..(m + 1) -> Nat]
    BY <2>2
  <2>4. ASSUME NEW i \in 0..(m + 1)
        PROVE  t[i] = IF i = 0 THEN 0 ELSE t[i - 1] + f[i]
    <3>1. CASE i = m + 1
      BY <3>1, <2>2
    <3>2. CASE i \in 0..m
      BY <3>2, <2>1, <2>2
    <3> QED BY <3>1, <3>2
  <2>5. Sum(m + 1, t)
    BY <2>3, <2>4
  <2> QED BY <2>5
<1>3. n \in Good
  <2> HIDE DEF Good
  <2> QED BY <1>1, <1>2, Inductive
<1>4. \E s : Sum(n, s)
  <2> HIDE DEF Sum
  <2> QED BY <1>3
<1> QED
  BY <1>4, Zenon

LEMMA SumEquation ==
    ASSUME NEW n \in Nat, NEW f \in [1..n -> Nat]
    PROVE  \E sum \in [0..n -> Nat] :
             /\ Total(n, f) = sum[n]
             /\ sum[0] = 0
             /\ \A i \in 1..n : sum[i] = sum[i - 1] + f[i]
<1> DEFINE Sum(sum) == sum = [i \in 0..n |-> IF i = 0 THEN 0 ELSE sum[i - 1] + f[i]]
           chosen == CHOOSE sum : Sum(sum)
<1>1. \E sum : sum \in [0..n -> Nat] /\ Sum(sum)
  BY SumExists
<1>2. Total(n, f) = chosen[n]
  BY DEF Total
<1>3. Sum(chosen)
  BY <1>1, Zenon
<1> HIDE DEF chosen
<1>4. /\ chosen[0] = 0
      /\ \A i \in 1..n : chosen[i] = chosen[i - 1] + f[i]
  BY <1>3
<1>5. chosen \in [0..n -> Nat]
  <2> DEFINE Good == {m \in Nat : m <= n => chosen[m] \in Nat}
  <2>1. 0 \in Good
    BY <1>4
  <2>2. ASSUME NEW m \in Nat, m \in Good PROVE m + 1 \in Good
    BY <1>4, <2>2
  <2>3. Nat \subseteq Good
    <3> HIDE DEF Good
    <3> QED BY <2>1, <2>2, Inductive
  <2>4. \A m \in 0..n : chosen[m] \in Nat
    BY <2>3
  <2> QED
    BY <1>3, <2>4
<1> QED
  BY <1>2, <1>4, <1>5

LEMMA TotalNat ==
    ASSUME NEW n \in Nat, NEW f \in [1..n -> Nat]
    PROVE  Total(n, f) \in Nat
BY SumEquation

(* A sum is greater when no term is less and one is greater. *)
LEMMA TotalMore ==
    ASSUME NEW n \in Nat, NEW f \in [1..n -> Nat], NEW g \in [1..n -> Nat],
           \A i \in 1..n : f[i] <= g[i]
    PROVE  /\ Total(n, f) <= Total(n, g)
           /\ (\E i \in 1..n : f[i] < g[i]) => Total(n, f) < Total(n, g)
<1>1. PICK s \in [0..n -> Nat] :
        Total(n, f) = s[n] /\ s[0] = 0 /\ \A i \in 1..n : s[i] = s[i - 1] + f[i]
  BY SumEquation
<1>2. PICK t \in [0..n -> Nat] :
        Total(n, g) = t[n] /\ t[0] = 0 /\ \A i \in 1..n : t[i] = t[i - 1] + g[i]
  BY SumEquation
<1> DEFINE Good == {m \in Nat : m <= n =>
        s[m] <= t[m] /\ ((\E i \in 1..m : f[i] < g[i]) => s[m] < t[m])}
<1>3. 0 \in Good
  BY <1>1, <1>2
<1>4. ASSUME NEW m \in Nat, m \in Good PROVE m + 1 \in Good
  <2> SUFFICES ASSUME m + 1 <= n
               PROVE  /\ s[m + 1] <= t[m + 1]
                      /\ (\E i \in 1..(m + 1) : f[i] < g[i]) => s[m + 1] < t[m + 1]
    OBVIOUS
  <2>1. m + 1 \in 1..n /\ m \in 0..n /\ s[m] \in Nat /\ t[m] \in Nat
    OBVIOUS
  <2>2. s[m + 1] = s[m] + f[m + 1] /\ t[m + 1] = t[m] + g[m + 1]
    BY <1>1, <1>2, <2>1
  <2>3. s[m] <= t[m] /\ ((\E i \in 1..m : f[i] < g[i]) => s[m] < t[m])
    BY <1>4
  <2>4. f[m + 1] \in Nat /\ g[m + 1] \in Nat /\ f[m + 1] <= g[m + 1]
    BY <2>1
  <2>5. s[m + 1] <= t[m + 1]
    BY <2>1, <2>2, <2>3, <2>4
  <2>6. ASSUME NEW i \in 1..(m + 1), f[i] < g[i] PROVE s[m + 1] < t[m + 1]
    <3>1. CASE i = m + 1
      BY <3>1, <2>1, <2>2, <2>3, <2>4, <2>6
    <3>2. CASE i \in 1..m
      BY <3>2, <2>1, <2>2, <2>3, <2>4, <2>6
    <3> QED
      BY <3>1, <3>2
  <2> QED
    BY <2>5, <2>6
<1>5. n \in Good
  <2> HIDE DEF Good
  <2> QED
    BY <1>3, <1>4, Inductive
<1> QED
  BY <1>1, <1>2, <1>5

LEMMA TotalPositive ==
    ASSUME NEW n \in Nat, NEW f \in [1..n -> Nat]
    PROVE  Total(n, f) > 0 <=> \E i \in 1..n : f[i] > 0
<1>1. PICK s \in [0..n -> Nat] :
        Total(n, f) = s[n] /\ s[0] = 0 /\ \A i \in 1..n : s[i] = s[i - 1] + f[i]
  BY SumEquation
<1> DEFINE Good == {m \in Nat : m <= n => (s[m] > 0 <=> \E i \in 1..m : f[i] > 0)}
<1>2. 0 \in Good
  BY <1>1
<1>3. ASSUME NEW m \in Nat, m \in Good PROVE m + 1 \in Good
  <2> SUFFICES ASSUME m + 1 <= n
               PROVE  s[m + 1] > 0 <=> \E i \in 1..(m + 1) : f[i] > 0
    OBVIOUS
  <2>1. m + 1 \in 1..n /\ m \in 0..n /\ s[m] \in Nat /\ f[m + 1] \in Nat
    OBVIOUS
  <2>2. s[m + 1] = s[m] + f[m + 1]
    BY <1>1, <2>1
  <2>3. s[m] > 0 <=> \E i \in 1..m : f[i] > 0
    BY <1>3
  <2> QED
    BY <2>1, <2>2, <2>3
<1>4. n \in Good
  <2> HIDE DEF Good
  <2> QED
    BY <1>2, <1>3, Inductive
<1> QED
  BY <1>1, <1>4

(* A total order lists a finite set, each element once. *)
LEMMA InOrderLists ==
    ASSUME NEW S, IsFiniteSet(S), NEW ahead,
           \A x \in S : <<x, x>> \notin ahead,
           \A x, y, z \in S : <<x, y>> \in ahead /\ <<y, z>> \in ahead => <<x, z>> \in ahead,
           \A x, y \in S : x # y => <<x, y>> \in ahead \/ <<y, x>> \in ahead
    PROVE  /\ Cardinality(S) \in Nat
           /\ InOrder(S, ahead) \in [1..Cardinality(S) -> S]
           /\ \A x \in S : \E i \in 1..Cardinality(S) : InOrder(S, ahead)[i] = x
           /\ \A i, j \in 1..Cardinality(S) :
                i < j <=> <<InOrder(S, ahead)[i], InOrder(S, ahead)[j]>> \in ahead
<1> DEFINE n == Cardinality(S)
           Below(x) == {y \in S : <<y, x>> \in ahead}
           pos == [x \in S |-> Cardinality(Below(x))]
<1>1. n \in Nat /\ IsFiniteSet(0..(n - 1)) /\ Cardinality(0..(n - 1)) = n
  <2>1. n \in Nat
    BY FS_CardinalityType
  <2>2. IsFiniteSet(0..(n - 1)) /\ Cardinality(0..(n - 1)) = IF 0 > n - 1 THEN 0 ELSE n - 1 - 0 + 1
    BY <2>1, FS_Interval
  <2> HIDE DEF n
  <2> QED
    BY <2>1, <2>2
<1>2. ASSUME NEW x \in S
      PROVE  IsFiniteSet(Below(x)) /\ pos[x] = Cardinality(Below(x)) /\ pos[x] \in 0..(n - 1)
  <2>1. IsFiniteSet(S \ {x}) /\ Cardinality(S \ {x}) = n - 1
    BY FS_RemoveElement
  <2>2. Below(x) \in SUBSET (S \ {x})
    OBVIOUS
  <2>3. IsFiniteSet(Below(x)) /\ Cardinality(Below(x)) <= n - 1
    <3> HIDE DEF Below, n
    <3> QED
      BY <2>1, <2>2, FS_Subset
  <2>4. Cardinality(Below(x)) \in Nat
    BY <2>3, FS_CardinalityType
  <2>5. pos[x] = Cardinality(Below(x))
    OBVIOUS
  <2> HIDE DEF pos, Below, n
  <2> QED
    BY <1>1, <2>3, <2>4, <2>5
<1>3. ASSUME NEW x \in S, NEW y \in S, <<y, x>> \in ahead PROVE pos[y] < pos[x]
  <2>1. Below(y) \in SUBSET Below(x) /\ Below(y) # Below(x)
    <3>1. y \in Below(x) /\ y \notin Below(y)
      BY <1>3
    <3>2. \A z \in Below(y) : z \in Below(x)
      BY <1>3
    <3> QED
      BY <3>1, <3>2
  <2>2. IsFiniteSet(Below(x)) /\ pos[y] = Cardinality(Below(y)) /\ pos[x] = Cardinality(Below(x))
    BY <1>2
  <2>3. pos[x] \in 0..(n - 1) /\ pos[y] \in 0..(n - 1)
    BY <1>2
  <2> HIDE DEF Below, pos, n
  <2>4. Cardinality(Below(y)) <= Cardinality(Below(x)) /\ Cardinality(Below(y)) # Cardinality(Below(x))
    BY <2>1, <2>2, FS_Subset
  <2> QED
    BY <1>1, <2>2, <2>3, <2>4
<1>4. ASSUME NEW x \in S, NEW y \in S, pos[x] = pos[y] PROVE x = y
  <2> HIDE DEF pos, Below, n
  <2>1. pos[x] \in 0..(n - 1) /\ pos[y] \in 0..(n - 1)
    BY <1>2
  <2>2. ~(pos[x] < pos[y]) /\ ~(pos[y] < pos[x])
    BY <1>1, <1>4, <2>1
  <2> QED
    BY <1>3, <2>2
<1>5. pos \in Injection(S, 0..(n - 1))
  <2>1. pos \in [S -> 0..(n - 1)]
    <3>1. \A x \in S : pos[x] \in 0..(n - 1)
      BY <1>2
    <3> HIDE DEF n
    <3> QED
      BY <3>1
  <2> HIDE DEF pos, n
  <2> QED
    BY <2>1, <1>4 DEF Injection, IsInjective
<1>6. pos \in Surjection(S, 0..(n - 1))
  <2> HIDE DEF pos
  <2> QED
    BY <1>1, <1>5, FS_Injection
<1>7. ASSUME NEW i \in 1..n
      PROVE  /\ InOrder(S, ahead)[i] \in S
             /\ pos[InOrder(S, ahead)[i]] = i - 1
  <2>1. \E x \in S : pos[x] = i - 1
    <3> HIDE DEF pos, n
    <3>1. i - 1 \in 0..(n - 1)
      BY <1>1
    <3> QED
      BY <1>6, <3>1 DEF Surjection
  <2>2. \E x \in S : Cardinality(Below(x)) = i - 1
    BY <2>1
  <2>3. InOrder(S, ahead)[i] = CHOOSE x \in S : Cardinality(Below(x)) = i - 1
    BY DEF InOrder
  <2>4. InOrder(S, ahead)[i] \in S /\ Cardinality(Below(InOrder(S, ahead)[i])) = i - 1
    <3> HIDE DEF Below, n
    <3> QED
      BY <2>2, <2>3, Zenon
  <2> QED
    BY <2>4
<1>8. InOrder(S, ahead) \in [1..n -> S]
  <2> DEFINE Chosen(i) == CHOOSE x \in S : Cardinality({y \in S : <<y, x>> \in ahead}) = i - 1
  <2>1. InOrder(S, ahead) = [i \in 1..n |-> Chosen(i)]
    BY DEF InOrder
  <2> HIDE DEF n, Chosen
  <2> QED
    BY <1>7, <2>1
<1>9. ASSUME NEW x \in S PROVE \E i \in 1..n : InOrder(S, ahead)[i] = x
  <2> HIDE DEF pos, n, Below
  <2>1. pos[x] \in 0..(n - 1) /\ pos[x] + 1 \in 1..n
    BY <1>1, <1>2
  <2>2. InOrder(S, ahead)[pos[x] + 1] \in S /\ pos[InOrder(S, ahead)[pos[x] + 1]] = pos[x] + 1 - 1
    BY <1>7, <2>1
  <2> QED
    BY <1>1, <1>4, <2>1, <2>2
<1>10. ASSUME NEW i \in 1..n, NEW j \in 1..n
       PROVE  i < j <=> <<InOrder(S, ahead)[i], InOrder(S, ahead)[j]>> \in ahead
  <2> DEFINE x == InOrder(S, ahead)[i]
             y == InOrder(S, ahead)[j]
  <2>1. x \in S /\ y \in S /\ pos[x] = i - 1 /\ pos[y] = j - 1
    BY <1>7
  <2> HIDE DEF pos, n, Below, x, y
  <2>2. <<x, y>> \in ahead => i < j
    BY <1>1, <1>3, <2>1
  <2>3. <<y, x>> \in ahead => j < i
    BY <1>1, <1>3, <2>1
  <2>4. i < j => x # y
    BY <1>1, <2>1
  <2>5. i < j => <<x, y>> \in ahead
    BY <1>1, <2>1, <2>3, <2>4
  <2>6. i < j <=> <<x, y>> \in ahead
    BY <2>2, <2>5
  <2> QED
    BY <2>6 DEF x, y
<1> QED
  BY <1>1, <1>8, <1>9, <1>10

(***************************************************************************)
(* QueryPlan: ranked lists.                                                *)
(*                                                                         *)
(* Every stage keeps the order that matters: Ahead, wherever q is, p is    *)
(* before it.                                                              *)
(***************************************************************************)
Rows == [path : Paths, score : Nat]

(* The higher scores first. *)
Sorted(rows) ==
    \A i, j \in 1..Len(rows) : i < j => rows[i].score >= rows[j].score

(* Wherever q is, p is before it. *)
Ahead(rows, p, q) ==
    \A j \in 1..Len(rows) : rows[j].path = q =>
        \E i \in 1..Len(rows) : i < j /\ rows[i].path = p

LEMMA RankedOrder ==
    ASSUME NEW S \in SUBSET [path : Paths, place : Nat, score : Nat], IsFiniteSet(S)
    PROVE  /\ Cardinality(S) \in Nat
           /\ \E order \in [1..Cardinality(S) -> S] :
             /\ Ranked(S) = [i \in 1..Cardinality(S) |-> Row(order[i].path, order[i].score)]
             /\ \A f \in S : \E i \in 1..Cardinality(S) : order[i] = f
             /\ \A i, j \in 1..Cardinality(S) : i < j <=> Higher(order[i], order[j])
<1> DEFINE ahead == {pair \in S \X S : Higher(pair[1], pair[2])}
           order == InOrder(S, ahead)
<1>1. \A x, y \in S : <<x, y>> \in ahead <=> Higher(x, y)
  OBVIOUS
<1>2. \A x \in S : x.path \in Nat /\ x.place \in Nat /\ x.score \in Nat
  BY LimitAssumption DEF Paths
<1>3. \A x \in S : ~Higher(x, x)
  BY <1>2 DEF Higher
<1>4. \A x, y, z \in S : Higher(x, y) /\ Higher(y, z) => Higher(x, z)
  BY <1>2 DEF Higher
<1>5. \A x, y \in S : x # y => Higher(x, y) \/ Higher(y, x)
  <2> SUFFICES ASSUME NEW x \in S, NEW y \in S, ~Higher(x, y), ~Higher(y, x)
               PROVE  x = y
    OBVIOUS
  <2>1. x.score = y.score /\ x.path = y.path /\ x.place = y.place
    BY <1>2 DEF Higher
  <2> QED
    BY <2>1
<1> HIDE DEF ahead
<1>6. /\ Cardinality(S) \in Nat
      /\ order \in [1..Cardinality(S) -> S]
      /\ \A x \in S : \E i \in 1..Cardinality(S) : order[i] = x
      /\ \A i, j \in 1..Cardinality(S) : i < j <=> <<order[i], order[j]>> \in ahead
  <2>1. \A x \in S : <<x, x>> \notin ahead
    BY <1>1, <1>3
  <2>2. \A x, y, z \in S : <<x, y>> \in ahead /\ <<y, z>> \in ahead => <<x, z>> \in ahead
    BY <1>1, <1>4
  <2>3. \A x, y \in S : x # y => <<x, y>> \in ahead \/ <<y, x>> \in ahead
    BY <1>1, <1>5
  <2> QED
    BY <2>1, <2>2, <2>3, InOrderLists
<1>7. Ranked(S) = [i \in 1..Cardinality(S) |-> Row(order[i].path, order[i].score)]
  BY DEF Ranked, ahead
<1> HIDE DEF order
<1> QED
  BY <1>1, <1>6, <1>7

LEMMA RankedRows ==
    ASSUME NEW S \in SUBSET [path : Paths, place : Nat, score : Nat], IsFiniteSet(S)
    PROVE  /\ Ranked(S) \in Seq(Rows) /\ Len(Ranked(S)) = Cardinality(S)
           /\ \A i \in 1..Len(Ranked(S)) : \E f \in S :
                Ranked(S)[i].path = f.path /\ Ranked(S)[i].score = f.score
           /\ PathsOf(Ranked(S)) = {f.path : f \in S}
           /\ Sorted(Ranked(S))
<1> DEFINE n == Cardinality(S)
<1>1. n \in Nat
  BY RankedOrder
<1>2. PICK order \in [1..n -> S] :
        /\ Ranked(S) = [i \in 1..n |-> Row(order[i].path, order[i].score)]
        /\ \A f \in S : \E i \in 1..n : order[i] = f
        /\ \A i, j \in 1..n : i < j <=> Higher(order[i], order[j])
  BY RankedOrder
<1> HIDE DEF n
<1>3. \A i \in 1..n : order[i] \in S /\ order[i].path \in Paths /\ order[i].score \in Nat
  OBVIOUS
<1>4. \A i \in 1..n : /\ Ranked(S)[i] = Row(order[i].path, order[i].score)
                      /\ Ranked(S)[i].path = order[i].path
                      /\ Ranked(S)[i].score = order[i].score
                      /\ Ranked(S)[i] \in Rows
  BY <1>2, <1>3 DEF Row, Rows
<1>5. Ranked(S) \in Seq(Rows) /\ Len(Ranked(S)) = n /\ DOMAIN Ranked(S) = 1..n
  BY <1>1, <1>2, <1>4
<1>6. \A i \in 1..Len(Ranked(S)) : \E f \in S :
                Ranked(S)[i].path = f.path /\ Ranked(S)[i].score = f.score
  BY <1>3, <1>4, <1>5
<1>7. PathsOf(Ranked(S)) = {f.path : f \in S}
  <2>1. ASSUME NEW f \in S PROVE \E i \in 1..n : Ranked(S)[i].path = f.path
    BY <1>2, <1>4
  <2>2. PathsOf(Ranked(S)) = {Ranked(S)[i].path : i \in 1..n}
    BY <1>5 DEF PathsOf
  <2>3. \A i \in 1..n : Ranked(S)[i].path \in {f.path : f \in S}
    BY <1>3, <1>4
  <2> QED
    BY <2>1, <2>2, <2>3
<1>8. Sorted(Ranked(S))
  <2> SUFFICES ASSUME NEW i \in 1..n, NEW j \in 1..n, i < j
               PROVE  Ranked(S)[i].score >= Ranked(S)[j].score
    BY <1>5 DEF Sorted
  <2>1. Higher(order[i], order[j])
    BY <1>2
  <2> QED
    BY <2>1, <1>3, <1>4 DEF Higher
<1> QED
  BY <1>5, <1>6, <1>7, <1>8 DEF n

LEMMA RankedAhead ==
    ASSUME NEW S \in SUBSET [path : Paths, place : Nat, score : Nat], IsFiniteSet(S),
           NEW p, NEW q,
           \A f \in S : f.path = q => \E g \in S : g.path = p /\ Higher(g, f)
    PROVE  Ahead(Ranked(S), p, q)
<1> DEFINE n == Cardinality(S)
<1>1. n \in Nat
  BY RankedOrder
<1>2. PICK order \in [1..n -> S] :
        /\ Ranked(S) = [i \in 1..n |-> Row(order[i].path, order[i].score)]
        /\ \A f \in S : \E i \in 1..n : order[i] = f
        /\ \A i, j \in 1..n : i < j <=> Higher(order[i], order[j])
  BY RankedOrder
<1>3. Len(Ranked(S)) = n
  BY RankedRows
<1> HIDE DEF n
<1>4. \A i \in 1..n : Ranked(S)[i].path = order[i].path /\ order[i] \in S
  BY <1>2 DEF Row
<1>5. ASSUME NEW j \in 1..n, Ranked(S)[j].path = q
      PROVE  \E i \in 1..n : i < j /\ Ranked(S)[i].path = p
  <2>1. PICK g \in S : g.path = p /\ Higher(g, order[j])
    BY <1>4, <1>5
  <2>2. PICK i \in 1..n : order[i] = g
    BY <1>2
  <2> QED
    BY <1>2, <1>4, <2>1, <2>2
<1> QED
  BY <1>3, <1>5 DEF Ahead

LEMMA RowsAre ==
    ASSUME NEW rows \in Seq(Rows)
    PROVE  /\ Len(rows) \in Nat /\ DOMAIN rows = 1..Len(rows)
           /\ \A i \in 1..Len(rows) : rows[i] \in Rows /\ rows[i].path \in Paths /\ rows[i].score \in Nat
           /\ PathsOf(rows) = {rows[i].path : i \in 1..Len(rows)}
           /\ PathsOf(rows) \subseteq Paths
<1>1. Len(rows) \in Nat /\ DOMAIN rows = 1..Len(rows)
  OBVIOUS
<1>2. \A i \in 1..Len(rows) : rows[i] \in Rows
  OBVIOUS
<1>3. \A i \in 1..Len(rows) : rows[i].path \in Paths /\ rows[i].score \in Nat
  BY <1>2 DEF Rows
<1> QED
  BY <1>1, <1>2, <1>3 DEF PathsOf

LEMMA CutRows ==
    ASSUME NEW rows \in Seq(Rows), NEW limit \in Nat
    PROVE  /\ Cut(rows, limit) \in Seq(Rows)
           /\ Len(Cut(rows, limit)) <= limit /\ Len(Cut(rows, limit)) <= Len(rows)
           /\ \A i \in 1..Len(Cut(rows, limit)) : Cut(rows, limit)[i] = rows[i]
           /\ PathsOf(Cut(rows, limit)) \subseteq PathsOf(rows)
           /\ Len(rows) <= limit => Cut(rows, limit) = rows
           /\ Sorted(rows) => Sorted(Cut(rows, limit))
           /\ \A p, q : Ahead(rows, p, q) => Ahead(Cut(rows, limit), p, q)
<1>1. CASE Len(rows) <= limit
  BY <1>1 DEF Cut
<1>2. CASE ~(Len(rows) <= limit)
  <2> DEFINE cut == Cut(rows, limit)
  <2>1. cut = SubSeq(rows, 1, limit)
    BY <1>2 DEF Cut
  <2>2. Len(rows) \in Nat /\ limit < Len(rows) /\ DOMAIN rows = 1..Len(rows)
    BY <1>2
  <2>3. cut \in Seq(Rows) /\ Len(cut) = limit /\ \A i \in 1..limit : cut[i] = rows[i]
    BY <2>1, <2>2
  <2> HIDE DEF cut
  <2>4. PathsOf(cut) \subseteq PathsOf(rows)
    BY <2>2, <2>3, RowsAre
  <2>5. Sorted(rows) => Sorted(cut)
    BY <2>2, <2>3 DEF Sorted
  <2>6. ASSUME NEW p, NEW q, Ahead(rows, p, q)
        PROVE  Ahead(cut, p, q)
    <3> SUFFICES ASSUME NEW j \in 1..Len(cut), cut[j].path = q
                 PROVE  \E i \in 1..Len(cut) : i < j /\ cut[i].path = p
      BY DEF Ahead
    <3>1. PICK i \in 1..Len(rows) : i < j /\ rows[i].path = p
      BY <2>2, <2>3, <2>6 DEF Ahead
    <3>2. i \in 1..Len(cut)
      BY <3>1, <2>2, <2>3
    <3> QED
      BY <3>1, <3>2, <2>3
  <2> QED
    BY <2>2, <2>3, <2>4, <2>5, <2>6 DEF cut
<1> QED
  BY <1>1, <1>2

LEMMA FirstRankIs ==
    ASSUME NEW rows \in Seq(Rows), NEW p \in PathsOf(rows)
    PROVE  /\ FirstRank(rows, p) \in 1..Len(rows)
           /\ rows[FirstRank(rows, p)].path = p
           /\ \A i \in 1..Len(rows) : rows[i].path = p => FirstRank(rows, p) <= i
<1> DEFINE ranks == {i \in DOMAIN rows : rows[i].path = p}
<1>1. ranks # {} /\ ranks \in SUBSET Nat /\ DOMAIN rows = 1..Len(rows)
  BY RowsAre
<1>2. Min(ranks) \in ranks /\ \A i \in ranks : Min(ranks) <= i
  BY <1>1, LeastIn
<1> QED
  BY <1>1, <1>2 DEF FirstRank

LEMMA FirstRankBefore ==
    ASSUME NEW rows \in Seq(Rows), NEW p, NEW q, q \in PathsOf(rows), Ahead(rows, p, q), Sorted(rows)
    PROVE  /\ p \in PathsOf(rows)
           /\ FirstRank(rows, p) < FirstRank(rows, q)
           /\ rows[FirstRank(rows, p)].score >= rows[FirstRank(rows, q)].score
<1> DEFINE j == FirstRank(rows, q)
<1>1. j \in 1..Len(rows) /\ rows[j].path = q
  BY FirstRankIs
<1> HIDE DEF j
<1>2. PICK i \in 1..Len(rows) : i < j /\ rows[i].path = p
  BY <1>1 DEF Ahead
<1>3. p \in PathsOf(rows)
  BY <1>2, RowsAre
<1>4. FirstRank(rows, p) \in 1..Len(rows) /\ FirstRank(rows, p) <= i
  BY <1>2, <1>3, FirstRankIs
<1>5. FirstRank(rows, p) < j
  BY <1>1, <1>2, <1>4, RowsAre
<1>6. rows[FirstRank(rows, p)].score >= rows[j].score
  BY <1>1, <1>4, <1>5 DEF Sorted
<1> QED
  BY <1>3, <1>5, <1>6 DEF j

LEMMA PathsFinite ==
    /\ IsFiniteSet(Paths) /\ Cardinality(Paths) = P
    /\ \A T \in SUBSET Paths :
         IsFiniteSet(T) /\ Cardinality(T) \in Nat /\ Cardinality(T) <= P
<1>1. IsFiniteSet(1..P) /\ Cardinality(1..P) = P
  BY LimitAssumption, FS_Interval
<1> QED
  BY <1>1, FS_Subset, FS_CardinalityType DEF Paths

LEMMA RankedPathsRows ==
    ASSUME NEW score \in [Paths -> Nat]
    PROVE  /\ RankedPaths(score) \in Seq(Rows)
           /\ PathsOf(RankedPaths(score)) = {p \in Paths : score[p] > 0}
           /\ \A T \in SUBSET Paths :
                {p \in Paths : score[p] > 0} \subseteq T => Len(RankedPaths(score)) <= Cardinality(T)
           /\ Len(RankedPaths(score)) <= P
           /\ Sorted(RankedPaths(score))
           /\ \A i \in 1..Len(RankedPaths(score)) : RankedPaths(score)[i].score > 0
           /\ \A p, q \in Paths : Before(p, q, score) => Ahead(RankedPaths(score), p, q)
<1> DEFINE S == Scored(score)
<1>1. S \in SUBSET [path : Paths, place : Nat, score : Nat]
  BY DEF Scored, Found
<1>2. \A f \in S : f.path \in Paths /\ f.place = 1 /\ f.score = score[f.path] /\ f.score > 0
  BY DEF Scored, Found
<1>3. ASSUME NEW p \in Paths, score[p] > 0 PROVE \E f \in S : f.path = p
  <2>1. Found(p, 1, score[p]) \in S
    BY <1>3 DEF Scored
  <2> QED
    BY <2>1 DEF Found
<1> HIDE DEF S
<1>4. ASSUME NEW T \in SUBSET Paths, {p \in Paths : score[p] > 0} \subseteq T
      PROVE  IsFiniteSet(S) /\ Cardinality(S) <= Cardinality(T)
  <2> DEFINE path == [f \in S |-> f.path]
  <2>1. \A f, g \in S : f.path = g.path => f = g
    BY <1>1, <1>2
  <2>2. path \in [S -> T]
    BY <1>2, <1>4
  <2>3. path \in Injection(S, T)
    BY <2>1, <2>2 DEF Injection, IsInjective
  <2> QED
    BY <2>3, PathsFinite, FS_Injection
<1>5. IsFiniteSet(S) /\ Cardinality(S) <= P
  BY <1>4, PathsFinite
<1>6. /\ Ranked(S) \in Seq(Rows) /\ Len(Ranked(S)) = Cardinality(S)
      /\ \A i \in 1..Len(Ranked(S)) : \E f \in S :
           Ranked(S)[i].path = f.path /\ Ranked(S)[i].score = f.score
      /\ PathsOf(Ranked(S)) = {f.path : f \in S}
      /\ Sorted(Ranked(S))
  BY <1>1, <1>5, RankedRows
<1>7. RankedPaths(score) = Ranked(S)
  BY DEF RankedPaths, S
<1>8. PathsOf(Ranked(S)) = {p \in Paths : score[p] > 0}
  BY <1>2, <1>3, <1>6
<1>9. ASSUME NEW p \in Paths, NEW q \in Paths, Before(p, q, score)
      PROVE  Ahead(Ranked(S), p, q)
  <2> SUFFICES ASSUME NEW f \in S, f.path = q
               PROVE  \E g \in S : g.path = p /\ Higher(g, f)
    BY <1>1, <1>5, RankedAhead
  <2>1. score[p] \in Nat /\ score[q] \in Nat /\ score[q] > 0
    BY <1>2
  <2>2. score[p] > score[q] \/ (score[p] = score[q] /\ p < q)
    BY <1>9, <2>1 DEF Before
  <2>3. PICK g \in S : g.path = p
    BY <1>3, <2>1, <2>2
  <2> QED
    BY <1>2, <2>1, <2>2, <2>3 DEF Higher
<1> QED
  BY <1>2, <1>4, <1>5, <1>6, <1>7, <1>8, <1>9

(***************************************************************************)
(* QueryPlan: scores. Every rank divides RankScale, so that a better rank  *)
(*                                                                         *)
(* always scores more: that is what keeps Ahead through a fusion.          *)
(***************************************************************************)
LEMMA ProductNat ==
    ASSUME NEW a \in Nat, NEW b \in Nat
    PROVE  a * b \in Nat /\ (a > 0 /\ b > 0 => a * b > 0)
OBVIOUS

LEMMA ProductLess ==
    ASSUME NEW a \in Nat \ {0}, NEW b \in Nat, NEW c \in Nat
    PROVE  (b < c <=> a * b < a * c) /\ (b <= c <=> a * b <= a * c)
OBVIOUS

LEMMA DivExact ==
    ASSUME NEW i \in Nat \ {0}, NEW a \in Nat
    PROVE  (i * a) \div i = a
OBVIOUS

LEMMA ModZero ==
    ASSUME NEW i \in Nat \ {0}, NEW n \in Nat, n % i = 0
    PROVE  n \div i \in Nat /\ n = i * (n \div i)
OBVIOUS

Ranks == 1..P \union 1..Candidates

LEMMA ScaleNat == Scale \in Nat \ {0}
BY LimitAssumption, ProductNat DEF Scale

LEMMA Exact ==
    ASSUME NEW unit \in Nat \ {0}, NEW i \in Ranks
    PROVE  \E a \in Nat : unit * Scale = i * a /\ (unit * Scale) \div i = a
<1>1. i \in Nat \ {0} /\ RankScale % i = 0
  BY LimitAssumption DEF Ranks
<1> DEFINE k == RankScale \div i
<1>2. k \in Nat /\ RankScale = i * k
  BY <1>1, LimitAssumption, ModZero
<1> HIDE DEF k
<1>3. unit * Scale = i * (unit * (k * ScoreDivisor))
  BY <1>1, <1>2, LimitAssumption DEF Scale
<1>4. unit * (k * ScoreDivisor) \in Nat
  BY <1>2, LimitAssumption, ProductNat
<1> QED
  BY <1>1, <1>3, <1>4, DivExact

(* A better rank scores more, whatever the score of the row. *)
LEMMA Reciprocal ==
    ASSUME NEW unit \in Nat \ {0}, NEW i \in Ranks
    PROVE  /\ (unit * Scale) \div i \in Nat
           /\ (unit * Scale) \div i > 0
           /\ \A j \in Ranks : i < j => (unit * Scale) \div i > (unit * Scale) \div j
<1>1. unit * Scale \in Nat /\ unit * Scale > 0
  BY ScaleNat, ProductNat
<1>2. PICK a \in Nat : unit * Scale = i * a /\ (unit * Scale) \div i = a
  BY Exact
<1>3. i \in Nat \ {0}
  BY LimitAssumption DEF Ranks
<1>4. a > 0
  BY <1>1, <1>2, <1>3
<1>5. ASSUME NEW j \in Ranks, i < j
      PROVE  a > (unit * Scale) \div j
  <2>1. PICK b \in Nat : unit * Scale = j * b /\ (unit * Scale) \div j = b
    BY Exact
  <2>2. j \in Nat \ {0}
    BY LimitAssumption DEF Ranks
  <2>3. i * a = j * b
    BY <1>2, <2>1
  <2>4. ~(a <= b)
    <3> SUFFICES ASSUME a <= b PROVE FALSE
      OBVIOUS
    <3>1. i * a <= i * b
      BY <1>3, ProductLess
    <3>2. b > 0 /\ i * b < j * b
      BY <1>3, <1>4, <1>5, <2>2
    <3>3. i * a \in Nat /\ i * b \in Nat /\ j * b \in Nat
      BY <1>3, <2>2
    <3> QED
      BY <2>3, <3>1, <3>2, <3>3
  <2> QED
    BY <2>1, <2>4
<1> QED
  BY <1>2, <1>4, <1>5

Listing(list) ==
    /\ list.weight \in Nat \ {0}
    /\ list.rows \in Seq(Rows)
    /\ Sorted(list.rows)
    /\ Len(list.rows) <= P \/ Len(list.rows) <= Candidates

LEMMA GainIs ==
    ASSUME NEW list, Listing(list), NEW unit \in Nat \ {0}, NEW p
    PROVE  /\ Gain(list, p, unit) \in Nat
           /\ Gain(list, p, unit) > 0 <=> p \in PathsOf(list.rows)
<1>1. CASE p \notin PathsOf(list.rows)
  BY <1>1 DEF Gain
<1>2. CASE p \in PathsOf(list.rows)
  <2> DEFINE rank == FirstRank(list.rows, p)
             score == list.rows[rank].score
  <2>1. rank \in 1..Len(list.rows)
    BY <1>2, FirstRankIs DEF Listing
  <2>2. rank \in Ranks /\ score \in Nat
    BY <2>1, RowsAre, LimitAssumption DEF Listing, Ranks
  <2>3. Gain(list, p, unit) = list.weight * ((unit * Scale) \div rank + RankScale * score)
    BY <1>2 DEF Gain, Contribution
  <2> HIDE DEF score, rank
  <2>4. (unit * Scale) \div rank \in Nat /\ (unit * Scale) \div rank > 0
    BY <2>2, Reciprocal
  <2>5. RankScale * score \in Nat
    BY <2>2, LimitAssumption, ProductNat
  <2>6. (unit * Scale) \div rank + RankScale * score \in Nat \ {0}
    BY <2>4, <2>5
  <2> QED
    BY <1>2, <2>3, <2>6, ProductNat DEF Listing
<1> QED
  BY <1>1, <1>2

LEMMA GainMore ==
    ASSUME NEW list, Listing(list), NEW unit \in Nat \ {0},
           NEW p, NEW q, Ahead(list.rows, p, q)
    PROVE  /\ Gain(list, q, unit) <= Gain(list, p, unit)
           /\ q \in PathsOf(list.rows) => Gain(list, q, unit) < Gain(list, p, unit)
<1>1. CASE q \notin PathsOf(list.rows)
  <2>1. Gain(list, q, unit) = 0
    BY <1>1 DEF Gain
  <2> QED
    BY <1>1, <2>1, GainIs
<1>2. CASE q \in PathsOf(list.rows)
  <2> DEFINE i == FirstRank(list.rows, p)
             j == FirstRank(list.rows, q)
             s == list.rows[i].score
             t == list.rows[j].score
             a == (unit * Scale) \div i
             b == (unit * Scale) \div j
  <2>1. p \in PathsOf(list.rows) /\ i < j /\ s >= t
    BY <1>2, FirstRankBefore DEF Listing
  <2>2. i \in 1..Len(list.rows) /\ j \in 1..Len(list.rows)
    BY <1>2, <2>1, FirstRankIs DEF Listing
  <2>3. i \in Ranks /\ j \in Ranks /\ s \in Nat /\ t \in Nat
    BY <2>2, RowsAre, LimitAssumption DEF Listing, Ranks
  <2>4. /\ Gain(list, p, unit) = list.weight * (a + RankScale * s)
        /\ Gain(list, q, unit) = list.weight * (b + RankScale * t)
    BY <1>2, <2>1 DEF Gain, Contribution
  <2> HIDE DEF i, j, s, t
  <2>5. a \in Nat /\ b \in Nat /\ a > b
    BY <2>1, <2>3, Reciprocal
  <2> HIDE DEF a, b
  <2>6. RankScale * s \in Nat /\ RankScale * t \in Nat /\ RankScale * t <= RankScale * s
    BY <2>1, <2>3, LimitAssumption, ProductNat, ProductLess
  <2>7. b + RankScale * t < a + RankScale * s
    BY <2>5, <2>6
  <2>8. Gain(list, q, unit) < Gain(list, p, unit)
    BY <2>4, <2>5, <2>6, <2>7, ProductLess DEF Listing
  <2> QED
    BY <2>8, GainIs
<1> QED
  BY <1>1, <1>2

Listings(rankings) ==
    Len(rankings) \in Nat /\ \A i \in 1..Len(rankings) : Listing(rankings[i])

LEMMA FusedScoreIs ==
    ASSUME NEW rankings, Listings(rankings), NEW unit \in Nat \ {0}
    PROVE  /\ FusedScore(unit, rankings) \in [Paths -> Nat]
           /\ \A p \in Paths : FusedScore(unit, rankings)[p] > 0
                <=> \E i \in 1..Len(rankings) : p \in PathsOf(rankings[i].rows)
           /\ \A p, q \in Paths :
                (\A i \in 1..Len(rankings) : Ahead(rankings[i].rows, p, q))
                   => Before(p, q, FusedScore(unit, rankings))
<1> DEFINE n == Len(rankings)
           gain(p) == [i \in 1..n |-> Gain(rankings[i], p, unit)]
           fused == FusedScore(unit, rankings)
<1>1. n \in Nat
  BY DEF Listings
<1>2. \A p : gain(p) \in [1..n -> Nat]
  BY GainIs DEF Listings
<1>3. ASSUME NEW p \in Paths
      PROVE  fused[p] = Total(n, gain(p)) /\ fused[p] \in Nat
  <2>1. fused[p] = Total(n, gain(p))
    BY DEF FusedScore
  <2>2. gain(p) \in [1..n -> Nat]
    BY <1>2
  <2> HIDE DEF gain, n, fused
  <2> QED
    BY <1>1, <2>1, <2>2, TotalNat
<1>4. fused \in [Paths -> Nat]
  <2>1. fused = [p \in Paths |-> Total(n, gain(p))]
    BY DEF FusedScore
  <2> HIDE DEF gain, n, fused
  <2> QED
    BY <1>3, <2>1
<1>5. ASSUME NEW p \in Paths
      PROVE  fused[p] > 0 <=> \E i \in 1..n : p \in PathsOf(rankings[i].rows)
  <2>1. \A i \in 1..n : gain(p)[i] = Gain(rankings[i], p, unit)
    OBVIOUS
  <2>2. gain(p) \in [1..n -> Nat]
    BY <1>2
  <2>3. \A i \in 1..n : Listing(rankings[i])
    BY DEF Listings
  <2> HIDE DEF gain, n, fused
  <2>4. fused[p] > 0 <=> \E i \in 1..n : gain(p)[i] > 0
    BY <1>1, <1>3, <2>2, TotalPositive
  <2> QED
    BY <2>1, <2>3, <2>4, GainIs
<1>6. ASSUME NEW p \in Paths, NEW q \in Paths,
             \A i \in 1..n : Ahead(rankings[i].rows, p, q)
      PROVE  Before(p, q, fused)
  <2>1. \A i \in 1..n : gain(p)[i] = Gain(rankings[i], p, unit) /\ gain(q)[i] = Gain(rankings[i], q, unit)
    OBVIOUS
  <2>2. gain(p) \in [1..n -> Nat] /\ gain(q) \in [1..n -> Nat]
    BY <1>2
  <2>3. \A i \in 1..n : Listing(rankings[i])
    BY DEF Listings
  <2> HIDE DEF gain, n, fused
  <2>4. \A i \in 1..n : /\ gain(q)[i] <= gain(p)[i]
                        /\ q \in PathsOf(rankings[i].rows) => gain(q)[i] < gain(p)[i]
    BY <1>6, <2>1, <2>3, GainMore
  <2>5. (\E i \in 1..n : gain(q)[i] < gain(p)[i]) => fused[q] < fused[p]
    BY <1>1, <1>3, <2>2, <2>4, TotalMore
  <2>6. fused[q] > 0 => fused[q] < fused[p]
    BY <1>5, <2>4, <2>5
  <2> QED
    BY <1>3, <2>6 DEF Before
<1> QED
  BY <1>4, <1>5, <1>6

(* What fusing lists gives: a list of at most limit rows, ordered, with a  *)
(* score, of paths of the lists; of all their paths when these are no more *)
(* than limit; and a path that is ahead of another in every list stays so. *)
LEMMA FuseRows ==
    ASSUME NEW limit \in Nat, NEW unit \in Nat \ {0}, NEW rankings, Listings(rankings)
    PROVE  LET fused == Fuse(limit, unit, rankings) IN
           /\ fused \in Seq(Rows) /\ Sorted(fused)
           /\ Len(fused) <= limit /\ Len(fused) <= P
           /\ \A i \in 1..Len(fused) : fused[i].score > 0
           /\ \A p \in PathsOf(fused) : \E i \in 1..Len(rankings) : p \in PathsOf(rankings[i].rows)
           /\ \A T \in SUBSET Paths :
                /\ \A i \in 1..Len(rankings) : PathsOf(rankings[i].rows) \subseteq T
                /\ Cardinality(T) <= limit
                => \A i \in 1..Len(rankings) : PathsOf(rankings[i].rows) \subseteq PathsOf(fused)
           /\ \A p, q \in Paths :
                (\A i \in 1..Len(rankings) : Ahead(rankings[i].rows, p, q)) => Ahead(fused, p, q)
<1> DEFINE score == FusedScore(unit, rankings)
           ranked == RankedPaths(score)
           fused == Fuse(limit, unit, rankings)
<1>1. /\ score \in [Paths -> Nat]
      /\ \A p \in Paths : score[p] > 0
           <=> \E i \in 1..Len(rankings) : p \in PathsOf(rankings[i].rows)
      /\ \A p, q \in Paths :
           (\A i \in 1..Len(rankings) : Ahead(rankings[i].rows, p, q)) => Before(p, q, score)
  BY FusedScoreIs
<1> HIDE DEF score
<1>2. /\ ranked \in Seq(Rows)
      /\ PathsOf(ranked) = {p \in Paths : score[p] > 0}
      /\ \A T \in SUBSET Paths : {p \in Paths : score[p] > 0} \subseteq T => Len(ranked) <= Cardinality(T)
      /\ Len(ranked) <= P
      /\ Sorted(ranked)
      /\ \A i \in 1..Len(ranked) : ranked[i].score > 0
      /\ \A p, q \in Paths : Before(p, q, score) => Ahead(ranked, p, q)
  BY <1>1, RankedPathsRows
<1>3. fused = Cut(ranked, limit)
  BY DEF Fuse, score
<1> HIDE DEF ranked, fused
<1>4. /\ fused \in Seq(Rows)
      /\ Len(fused) <= limit /\ Len(fused) <= Len(ranked)
      /\ \A i \in 1..Len(fused) : fused[i] = ranked[i]
      /\ PathsOf(fused) \subseteq PathsOf(ranked)
      /\ Len(ranked) <= limit => fused = ranked
      /\ Sorted(ranked) => Sorted(fused)
      /\ \A p, q : Ahead(ranked, p, q) => Ahead(fused, p, q)
  BY <1>2, <1>3, CutRows
<1>5. Len(ranked) \in Nat /\ Len(fused) \in Nat /\ P \in Nat
  BY <1>2, <1>4, LimitAssumption
<1>6. Len(fused) <= P /\ \A i \in 1..Len(fused) : i \in 1..Len(ranked) /\ fused[i].score > 0
  BY <1>2, <1>4, <1>5
<1>7. \A p \in PathsOf(fused) : \E i \in 1..Len(rankings) : p \in PathsOf(rankings[i].rows)
  BY <1>1, <1>2, <1>4
<1>8. ASSUME NEW T \in SUBSET Paths, Cardinality(T) <= limit,
             \A i \in 1..Len(rankings) : PathsOf(rankings[i].rows) \subseteq T
      PROVE  \A i \in 1..Len(rankings) : PathsOf(rankings[i].rows) \subseteq PathsOf(fused)
  <2>1. {p \in Paths : score[p] > 0} \subseteq T
    BY <1>1, <1>8
  <2>2. Cardinality(T) \in Nat /\ Len(ranked) <= Cardinality(T)
    BY <1>2, <2>1, PathsFinite
  <2>3. fused = ranked
    BY <1>4, <1>5, <1>8, <2>2
  <2> QED
    BY <1>1, <1>2, <1>8, <2>3
<1>9. \A p, q \in Paths :
        (\A i \in 1..Len(rankings) : Ahead(rankings[i].rows, p, q)) => Ahead(fused, p, q)
  BY <1>1, <1>2, <1>4
<1> QED
  BY <1>2, <1>4, <1>6, <1>7, <1>8, <1>9 DEF fused

(***************************************************************************)
(* QueryPlan: what the map says of a plan.                                 *)
(***************************************************************************)
LEMMA ImageFinite ==
    ASSUME NEW S, IsFiniteSet(S), NEW f, DOMAIN f = S
    PROVE  IsFiniteSet({f[x] : x \in S})
<1> DEFINE T == {f[x] : x \in S}
           onto == [x \in S |-> f[x]]
<1>1. onto \in Surjection(S, T)
  BY DEF Surjection
<1> HIDE DEF T, onto
<1>2. IsFiniteSet(T)
  BY <1>1, FS_Surjection
<1> QED
  BY <1>2 DEF T

(* A finite set of numbers has a greatest one. *)
LEMMA GreatestIn ==
    ASSUME NEW S \in SUBSET Nat, IsFiniteSet(S), S # {}
    PROVE  Max(S) \in S /\ \A y \in S : y <= Max(S)
<1>1. Cardinality(S) \in Nat /\ \E f : f \in Bijection(1..Cardinality(S), S)
  BY FS_CardinalityType DEF ExistsBijection
<1> DEFINE n == Cardinality(S)
<1>2. PICK f : f \in [1..n -> S] /\ \A x \in S : \E i \in 1..n : f[i] = x
  <2>1. PICK f : f \in Bijection(1..n, S)
    BY <1>1
  <2> QED
    BY <2>1 DEF Bijection, Surjection, Injection
<1>n. n \in Nat
  BY <1>1
<1> HIDE DEF n
<1>f. \A i \in 1..n : f[i] \in Nat
  BY <1>2
<1> DEFINE Good == {m \in Nat : m <= n => \E b \in Nat : \A i \in 1..m : f[i] <= b}
<1>3. 0 \in Good
  OBVIOUS
<1>4. ASSUME NEW m \in Nat, m \in Good PROVE m + 1 \in Good
  <2> SUFFICES ASSUME m + 1 <= n PROVE \E b \in Nat : \A i \in 1..(m + 1) : f[i] <= b
    OBVIOUS
  <2>1. n \in Nat /\ m + 1 \in 1..n /\ f[m + 1] \in Nat
    BY <1>n, <1>f
  <2>2. PICK b \in Nat : \A i \in 1..m : f[i] <= b
    BY <1>4, <2>1
  <2>3. \A i \in 1..m : f[i] \in Nat
    BY <1>f, <2>1
  <2>4. b + f[m + 1] \in Nat /\ \A i \in 1..(m + 1) : f[i] <= b + f[m + 1]
    BY <2>1, <2>2, <2>3
  <2> QED
    BY <2>4
<1>5. Nat \subseteq Good
  <2> HIDE DEF Good
  <2> QED
    BY <1>3, <1>4, Inductive
<1> DEFINE U == {b \in Nat : \A x \in S : x <= b}
<1>6. U # {} /\ U \in SUBSET Nat
  <2>1. PICK b \in Nat : \A i \in 1..n : f[i] <= b
    <3>1. n \in Good
      BY <1>5, <1>n
    <3> QED
      BY <3>1, <1>n
  <2>2. b \in U
    BY <1>2, <2>1
  <2> QED
    BY <2>2
<1>7. Min(U) \in U /\ \A b \in U : Min(U) <= b
  BY <1>6, LeastIn
<1>8. Min(U) \in S
  <2> SUFFICES ASSUME Min(U) \notin S PROVE FALSE
    OBVIOUS
  <2> DEFINE m == Min(U)
  <2>1. m \in Nat /\ \A x \in S : x \in Nat /\ x <= m /\ x # m
    BY <1>7
  <2>2. \A b \in U : m <= b
    BY <1>7
  <2> HIDE DEF m
  <2>3. m # 0
    <3>1. PICK x \in S : TRUE
      OBVIOUS
    <3> QED
      BY <2>1, <3>1
  <2>4. m - 1 \in Nat /\ \A x \in S : x <= m - 1
    BY <2>1, <2>3
  <2> QED
    BY <2>1, <2>2, <2>4
<1>9. \E x \in S : \A y \in S : x >= y
  BY <1>7, <1>8
<1> QED
  BY <1>9 DEF Max

(* What a query is about does not change. *)
Given == corpus \in [Paths -> Profiles] /\ links \in Links /\ plan \in Plans

Kinds == {"text", "phrase", "symbol"}

LEMMA RecordsAre ==
    ASSUME Given, NEW p \in Paths
    PROVE  /\ corpus[p].hint \in Nat
           /\ Len(corpus[p].records) \in Nat /\ DOMAIN corpus[p].records = 1..Len(corpus[p].records)
           /\ EntriesOf(p) \subseteq 1..Len(corpus[p].records)
           /\ IsFiniteSet(EntriesOf(p))
           /\ \A channel \in Kinds, i \in EntriesOf(p) : Score(p, i, channel) \in Nat
<1>1. corpus[p] \in Profiles
  BY DEF Given
<1>2. /\ corpus[p].hint \in Nat
      /\ Len(corpus[p].records) \in Nat /\ DOMAIN corpus[p].records = 1..Len(corpus[p].records)
      /\ \A i \in DOMAIN corpus[p].records : \A channel \in Kinds : corpus[p].records[i][channel] \in Nat
  BY <1>1, ProfileAssumption DEF Kinds
<1>3. EntriesOf(p) \in SUBSET (1..Len(corpus[p].records))
  BY <1>2 DEF EntriesOf
<1>4. IsFiniteSet(1..Len(corpus[p].records))
  <2> DEFINE k == Len(corpus[p].records)
  <2>1. k \in Int /\ 1 \in Int
    BY <1>2
  <2> HIDE DEF k
  <2>2. IsFiniteSet(1..k)
    BY <2>1, FS_Interval
  <2> QED
    BY <2>2 DEF k
<1>5. IsFiniteSet(EntriesOf(p))
  BY <1>3, <1>4, FS_Subset
<1> QED
  BY <1>2, <1>3, <1>5 DEF Score

LEMMA EntriesAre ==
    ASSUME Given, NEW channel \in Kinds
    PROVE  /\ Entries(channel) \in SUBSET [path : Paths, place : Nat, score : Nat]
           /\ IsFiniteSet(Entries(channel))
           /\ \A f \in Entries(channel) : /\ f.place \in EntriesOf(f.path)
                                          /\ f.score = Score(f.path, f.place, channel) /\ f.score > 0
           /\ \A p \in Paths : \A i \in EntriesOf(p) : Score(p, i, channel) > 0 =>
                \E f \in Entries(channel) : f.path = p /\ f.score = Score(p, i, channel)
<1> DEFINE E(p) == {Found(p, i, Score(p, i, channel)) : i \in {j \in EntriesOf(p) : Score(p, j, channel) > 0}}
<1>1. Entries(channel) = UNION {E(p) : p \in Paths}
  BY DEF Entries
<1>2. ASSUME NEW p \in Paths, NEW f \in E(p)
      PROVE  /\ f \in [path : Paths, place : Nat, score : Nat]
             /\ f.path = p /\ f.place \in EntriesOf(p)
             /\ f.score = Score(p, f.place, channel) /\ f.score > 0
  <2>1. PICK i \in EntriesOf(p) : Score(p, i, channel) > 0 /\ f = Found(p, i, Score(p, i, channel))
    OBVIOUS
  <2>2. i \in Nat /\ Score(p, i, channel) \in Nat
    BY RecordsAre
  <2> QED
    BY <2>1, <2>2 DEF Found
<1>3. ASSUME NEW p \in Paths PROVE IsFiniteSet(E(p))
  <2> DEFINE S == {j \in EntriesOf(p) : Score(p, j, channel) > 0}
             g == [i \in S |-> Found(p, i, Score(p, i, channel))]
  <2>1. S \in SUBSET EntriesOf(p) /\ IsFiniteSet(EntriesOf(p))
    BY RecordsAre
  <2>2. IsFiniteSet(S)
    BY <2>1, FS_Subset
  <2>3. E(p) = {g[i] : i \in S} /\ DOMAIN g = S
    OBVIOUS
  <2> HIDE DEF S, g, E
  <2> QED
    BY <2>2, <2>3, ImageFinite
<1>4. IsFiniteSet(Entries(channel))
  <2> DEFINE g == [p \in Paths |-> E(p)]
  <2>1. DOMAIN g = Paths /\ {E(p) : p \in Paths} = {g[p] : p \in Paths}
    OBVIOUS
  <2> HIDE DEF E
  <2>2. \A T \in {E(p) : p \in Paths} : IsFiniteSet(T)
    BY <1>3
  <2> HIDE DEF g
  <2>3. IsFiniteSet({E(p) : p \in Paths})
    BY <2>1, PathsFinite, ImageFinite
  <2> QED
    BY <1>1, <2>2, <2>3, FS_UNION
<1>5. ASSUME NEW p \in Paths, NEW i \in EntriesOf(p), Score(p, i, channel) > 0
      PROVE  \E f \in Entries(channel) : f.path = p /\ f.score = Score(p, i, channel)
  <2>1. Found(p, i, Score(p, i, channel)) \in E(p)
    BY <1>5
  <2>2. Found(p, i, Score(p, i, channel)) \in Entries(channel)
    BY <1>1, <2>1
  <2> QED
    BY <2>2 DEF Found
<1>6. \A f \in Entries(channel) : \E p \in Paths : f \in E(p)
  BY <1>1
<1> HIDE DEF E
<1> QED
  BY <1>2, <1>4, <1>5, <1>6

LEMMA BestIs ==
    ASSUME Given, NEW channel \in Kinds
    PROVE  /\ Best(channel) \in [Paths -> Nat]
           /\ \A f \in Entries(channel) : f.score <= Best(channel)[f.path]
           /\ \A p \in Paths : Best(channel)[p] > 0 =>
                \E f \in Entries(channel) : f.path = p /\ f.score = Best(channel)[p]
<1> DEFINE scores(p) == {Score(p, i, channel) : i \in EntriesOf(p)}
<1>1. ASSUME NEW p \in Paths
      PROVE  /\ Best(channel)[p] \in Nat /\ Best(channel)[p] \in {0} \union scores(p)
             /\ \A s \in scores(p) : s <= Best(channel)[p]
  <2> DEFINE g == [i \in EntriesOf(p) |-> Score(p, i, channel)]
             S == {0} \union scores(p)
  <2>1. scores(p) = {g[i] : i \in EntriesOf(p)} /\ DOMAIN g = EntriesOf(p)
    OBVIOUS
  <2>2. S \in SUBSET Nat /\ S # {}
    BY RecordsAre
  <2>3. IsFiniteSet(EntriesOf(p))
    BY RecordsAre
  <2>4. Best(channel)[p] = Max(S)
    BY DEF Best
  <2>5. IsFiniteSet(S)
    <3> HIDE DEF g, scores
    <3>1. IsFiniteSet(scores(p))
      BY <2>1, <2>3, ImageFinite
    <3> QED
      BY <3>1, FS_AddElement
  <2>6. Max(S) \in S /\ \A y \in S : y <= Max(S)
    <3> HIDE DEF S
    <3> QED
      BY <2>2, <2>5, GreatestIn
  <2> HIDE DEF scores
  <2> QED
    BY <2>2, <2>4, <2>6
<1>2. Best(channel) \in [Paths -> Nat]
  BY <1>1 DEF Best
<1>3. ASSUME NEW f \in Entries(channel)
      PROVE  f.score <= Best(channel)[f.path]
  BY <1>1, EntriesAre
<1>4. ASSUME NEW p \in Paths, Best(channel)[p] > 0
      PROVE  \E f \in Entries(channel) : f.path = p /\ f.score = Best(channel)[p]
  <2>1. Best(channel)[p] \in scores(p)
    BY <1>1, <1>4
  <2>2. PICK i \in EntriesOf(p) : Best(channel)[p] = Score(p, i, channel)
    BY <2>1
  <2> QED
    BY <1>4, <2>2, EntriesAre
<1> QED
  BY <1>2, <1>3, <1>4

(* p leads q in whatever the map says of them. *)
Leads(p, q) ==
    /\ p \in AllowedPaths
    /\ ~Linked(q)
    /\ \A channel \in Kinds : Before(p, q, Best(channel))
    /\ Before(p, q, Hint)

LEMMA BestAllowed ==
    ASSUME Given, NEW channel \in Kinds, NEW p \in Paths, Best(channel)[p] > 0
    PROVE  p \in AllowedPaths
BY BestIs, EntriesAre DEF AllowedPaths

LEMMA HintIs ==
    ASSUME Given
    PROVE  Hint \in [Paths -> Nat] /\ \A p \in Paths : Hint[p] > 0 => p \in AllowedPaths
BY RecordsAre DEF Hint

LEMMA EntryRowsAre ==
    ASSUME Given, NEW channel \in Kinds
    PROVE  /\ EntryRows(channel) \in Seq(Rows) /\ Sorted(EntryRows(channel))
           /\ Len(EntryRows(channel)) <= Candidates
           /\ \A p \in PathsOf(EntryRows(channel)) : Best(channel)[p] > 0
           /\ Cardinality(Entries(channel)) <= Candidates =>
                \A p \in Paths : Best(channel)[p] > 0 => p \in PathsOf(EntryRows(channel))
           /\ \A p, q \in Paths : Before(p, q, Best(channel)) => Ahead(EntryRows(channel), p, q)
<1> DEFINE S == Entries(channel)
           ranked == Ranked(S)
<1>1. /\ S \in SUBSET [path : Paths, place : Nat, score : Nat]
      /\ IsFiniteSet(S)
      /\ \A f \in S : /\ f.place \in EntriesOf(f.path)
                      /\ f.score = Score(f.path, f.place, channel) /\ f.score > 0
  BY EntriesAre
<1>2. /\ ranked \in Seq(Rows) /\ Len(ranked) = Cardinality(S)
      /\ PathsOf(ranked) = {f.path : f \in S}
      /\ Sorted(ranked)
  BY <1>1, RankedRows
<1>3. /\ Best(channel) \in [Paths -> Nat]
      /\ \A f \in S : f.score <= Best(channel)[f.path]
      /\ \A p \in Paths : Best(channel)[p] > 0 =>
           \E f \in S : f.path = p /\ f.score = Best(channel)[p]
  BY BestIs
<1> HIDE DEF S
<1>4. \A f \in S : f.path \in Paths /\ f.place \in Nat /\ f.score \in Nat
  BY <1>1
<1>5. PathsOf(ranked) = {p \in Paths : Best(channel)[p] > 0}
  BY <1>1, <1>2, <1>3, <1>4
<1>6. ASSUME NEW p \in Paths, NEW q \in Paths, Before(p, q, Best(channel))
      PROVE  Ahead(ranked, p, q)
  <2> SUFFICES ASSUME NEW f \in S, f.path = q
               PROVE  \E g \in S : g.path = p /\ Higher(g, f)
    BY <1>1, RankedAhead
  <2>1. /\ Best(channel)[p] \in Nat /\ Best(channel)[q] \in Nat
        /\ f.score \in Nat /\ f.score > 0 /\ f.score <= Best(channel)[q]
    BY <1>1, <1>3, <1>4
  <2>2. Best(channel)[p] > Best(channel)[q] \/ (Best(channel)[p] = Best(channel)[q] /\ p < q)
    BY <1>6, <2>1 DEF Before
  <2>3. PICK g \in S : g.path = p /\ g.score = Best(channel)[p]
    BY <1>3, <2>1, <2>2
  <2> QED
    BY <1>4, <2>1, <2>2, <2>3 DEF Higher
<1>7. EntryRows(channel) = Cut(ranked, Candidates)
  BY DEF EntryRows, S
<1> HIDE DEF ranked
<1>8. Candidates \in Nat
  BY LimitAssumption
<1> QED
  BY <1>2, <1>5, <1>6, <1>7, <1>8, CutRows DEF S

(* A list of scored paths, cut to the candidates. *)
LEMMA CandidatesOf ==
    ASSUME NEW score \in [Paths -> Nat]
    PROVE  LET rows == Cut(RankedPaths(score), Candidates) IN
           /\ rows \in Seq(Rows) /\ Sorted(rows)
           /\ Len(rows) <= Candidates
           /\ \A p \in PathsOf(rows) : p \in Paths /\ score[p] > 0
           /\ \A T \in SUBSET Paths :
                {p \in Paths : score[p] > 0} \subseteq T /\ Cardinality(T) <= Candidates =>
                   \A p \in Paths : score[p] > 0 => p \in PathsOf(rows)
           /\ \A p, q \in Paths : Before(p, q, score) => Ahead(rows, p, q)
<1> DEFINE ranked == RankedPaths(score)
           rows == Cut(ranked, Candidates)
<1>1. /\ ranked \in Seq(Rows)
      /\ PathsOf(ranked) = {p \in Paths : score[p] > 0}
      /\ \A T \in SUBSET Paths : {p \in Paths : score[p] > 0} \subseteq T => Len(ranked) <= Cardinality(T)
      /\ Sorted(ranked)
      /\ \A p, q \in Paths : Before(p, q, score) => Ahead(ranked, p, q)
  BY RankedPathsRows
<1> HIDE DEF ranked
<1>2. Candidates \in Nat
  BY LimitAssumption
<1>3. /\ rows \in Seq(Rows)
      /\ Len(rows) <= Candidates
      /\ PathsOf(rows) \subseteq PathsOf(ranked)
      /\ Len(ranked) <= Candidates => rows = ranked
      /\ Sorted(rows)
      /\ \A p, q : Ahead(ranked, p, q) => Ahead(rows, p, q)
  BY <1>1, <1>2, CutRows
<1>4. ASSUME NEW T \in SUBSET Paths, {p \in Paths : score[p] > 0} \subseteq T, Cardinality(T) <= Candidates
      PROVE  \A p \in Paths : score[p] > 0 => p \in PathsOf(rows)
  <2>1. Len(ranked) <= Cardinality(T) /\ Cardinality(T) \in Nat /\ Len(ranked) \in Nat
    BY <1>1, <1>4, PathsFinite
  <2>2. Len(ranked) <= Candidates
    BY <1>2, <1>4, <2>1
  <2> QED
    BY <1>1, <1>3, <2>2
<1>5. \A p \in PathsOf(rows) : p \in Paths /\ score[p] > 0
  BY <1>1, <1>3
<1>6. \A p, q \in Paths : Before(p, q, score) => Ahead(rows, p, q)
  BY <1>1, <1>3
<1> QED
  BY <1>3, <1>4, <1>5, <1>6 DEF ranked

LEMMA ChannelsAre ==
    ASSUME Given
    PROVE  /\ Listings(Channels) /\ Len(Channels) = 4
           /\ \A i \in 1..4 : \A p \in PathsOf(Channels[i].rows) : p \in AllowedPaths /\ Direct(p)
           /\ \A p, q \in Paths : Leads(p, q) => \A i \in 1..4 : Ahead(Channels[i].rows, p, q)
           /\ \A T \in SUBSET Paths :
                /\ {p \in Paths : Direct(p)} \subseteq T /\ Cardinality(T) <= Candidates
                /\ Cardinality(Entries("text")) <= Candidates
                /\ Cardinality(Entries("phrase")) <= Candidates
                => \A p \in Paths : Direct(p) => \E i \in 1..4 : p \in PathsOf(Channels[i].rows)
<1> DEFINE text == EntryRows("text")
           phrase == EntryRows("phrase")
           named == Cut(RankedPaths(Hint), Candidates)
           symbols == Cut(RankedPaths(Best("symbol")), Candidates)
<1>1. Hint \in [Paths -> Nat] /\ Best("symbol") \in [Paths -> Nat]
  BY HintIs, BestIs DEF Kinds
<1>2. /\ Channels = <<Weighted(20, text), Weighted(25, phrase), Weighted(35, named), Weighted(40, symbols)>>
      /\ Len(Channels) = 4
      /\ Channels[1].weight = 20 /\ Channels[1].rows = text
      /\ Channels[2].weight = 25 /\ Channels[2].rows = phrase
      /\ Channels[3].weight = 35 /\ Channels[3].rows = named
      /\ Channels[4].weight = 40 /\ Channels[4].rows = symbols
  BY DEF Channels, Weighted
<1>3. \A channel \in {"text", "phrase"} :
        LET rows == EntryRows(channel) IN
           /\ rows \in Seq(Rows) /\ Sorted(rows) /\ Len(rows) <= Candidates
           /\ \A p \in PathsOf(rows) : p \in Paths /\ Best(channel)[p] > 0
           /\ Cardinality(Entries(channel)) <= Candidates =>
                \A p \in Paths : Best(channel)[p] > 0 => p \in PathsOf(rows)
           /\ \A p, q \in Paths : Before(p, q, Best(channel)) => Ahead(rows, p, q)
  BY EntryRowsAre, RowsAre DEF Kinds
<1>4. /\ named \in Seq(Rows) /\ Sorted(named) /\ Len(named) <= Candidates
      /\ \A p \in PathsOf(named) : p \in Paths /\ Hint[p] > 0
      /\ \A T \in SUBSET Paths :
           {p \in Paths : Hint[p] > 0} \subseteq T /\ Cardinality(T) <= Candidates =>
              \A p \in Paths : Hint[p] > 0 => p \in PathsOf(named)
      /\ \A p, q \in Paths : Before(p, q, Hint) => Ahead(named, p, q)
  BY <1>1, CandidatesOf
<1>5. /\ symbols \in Seq(Rows) /\ Sorted(symbols) /\ Len(symbols) <= Candidates
      /\ \A p \in PathsOf(symbols) : p \in Paths /\ Best("symbol")[p] > 0
      /\ \A T \in SUBSET Paths :
           {p \in Paths : Best("symbol")[p] > 0} \subseteq T /\ Cardinality(T) <= Candidates =>
              \A p \in Paths : Best("symbol")[p] > 0 => p \in PathsOf(symbols)
      /\ \A p, q \in Paths : Before(p, q, Best("symbol")) => Ahead(symbols, p, q)
  BY <1>1, CandidatesOf
<1> HIDE DEF text, phrase, named, symbols
<1>6. \A i \in 1..4 : i = 1 \/ i = 2 \/ i = 3 \/ i = 4
  OBVIOUS
<1>7. Listings(Channels)
  <2>1. Listing(Channels[1]) /\ Listing(Channels[2])
    BY <1>2, <1>3 DEF Listing, text, phrase
  <2>2. Listing(Channels[3]) /\ Listing(Channels[4])
    BY <1>2, <1>4, <1>5 DEF Listing
  <2> QED
    BY <1>2, <1>6, <2>1, <2>2 DEF Listings
<1>8. ASSUME NEW p \in Paths
      PROVE  Direct(p) <=> \/ Best("text")[p] > 0 \/ Best("phrase")[p] > 0
                           \/ Hint[p] > 0 \/ Best("symbol")[p] > 0
  BY DEF Direct
<1>9. ASSUME NEW i \in 1..4, NEW p \in PathsOf(Channels[i].rows)
      PROVE  p \in AllowedPaths /\ Direct(p)
  <2>1. p \in Paths /\ (\/ Best("text")[p] > 0 \/ Best("phrase")[p] > 0
                        \/ Hint[p] > 0 \/ Best("symbol")[p] > 0)
    BY <1>2, <1>3, <1>4, <1>5, <1>6, <1>9 DEF text, phrase
  <2>2. p \in AllowedPaths
    BY <2>1, HintIs, BestAllowed DEF Kinds
  <2> QED
    BY <1>8, <2>1, <2>2
<1>10. ASSUME NEW p \in Paths, NEW q \in Paths, Leads(p, q), NEW i \in 1..4
       PROVE  Ahead(Channels[i].rows, p, q)
  <2>1. /\ Before(p, q, Best("text")) /\ Before(p, q, Best("phrase"))
        /\ Before(p, q, Hint) /\ Before(p, q, Best("symbol"))
    BY <1>10 DEF Leads, Kinds
  <2> QED
    BY <1>2, <1>3, <1>4, <1>5, <1>6, <2>1 DEF text, phrase
<1>11. ASSUME NEW T \in SUBSET Paths,
              {p \in Paths : Direct(p)} \subseteq T, Cardinality(T) <= Candidates,
              Cardinality(Entries("text")) <= Candidates,
              Cardinality(Entries("phrase")) <= Candidates,
              NEW p \in Paths, Direct(p)
       PROVE  \E i \in 1..4 : p \in PathsOf(Channels[i].rows)
  <2>1. {r \in Paths : Hint[r] > 0} \subseteq T /\ {r \in Paths : Best("symbol")[r] > 0} \subseteq T
    BY <1>8, <1>11
  <2>2. Best("text")[p] > 0 => p \in PathsOf(Channels[1].rows)
    BY <1>2, <1>3, <1>11 DEF text
  <2>3. Best("phrase")[p] > 0 => p \in PathsOf(Channels[2].rows)
    BY <1>2, <1>3, <1>11 DEF phrase
  <2>4. Hint[p] > 0 => p \in PathsOf(Channels[3].rows)
    BY <1>2, <1>4, <1>11, <2>1
  <2>5. Best("symbol")[p] > 0 => p \in PathsOf(Channels[4].rows)
    BY <1>2, <1>5, <1>11, <2>1
  <2> QED
    BY <1>8, <1>11, <2>2, <2>3, <2>4, <2>5
<1> QED
  BY <1>2, <1>7, <1>9, <1>10, <1>11

LEMMA RelatedIs ==
    ASSUME Given, NEW seeds \in SUBSET Paths
    PROVE  /\ Related(seeds) \in Seq(Rows) /\ Sorted(Related(seeds))
           /\ Len(Related(seeds)) <= Candidates
           /\ \A p \in PathsOf(Related(seeds)) : p \in AllowedPaths /\ Linked(p)
<1> DEFINE near == Neighbours(seeds)
           reached == IF plan.depth = 1 THEN near ELSE near \union Neighbours(near)
           found == (reached \intersect AllowedPaths) \ seeds
           score == [p \in Paths |-> IF p \in found THEN 1 ELSE 0]
           rows == Cut(RankedPaths(score), Candidates)
<1>1. ASSUME NEW frontier, NEW p \in Neighbours(frontier) PROVE Linked(p)
  <2>1. PICK s \in frontier : <<s, p>> \in links.imports \union links.tests
                            \/ <<p, s>> \in links.imports \union links.tests
    BY DEF Neighbours
  <2>2. p \in {<<s, p>>[1], <<s, p>>[2]} /\ p \in {<<p, s>>[1], <<p, s>>[2]}
    OBVIOUS
  <2> QED
    BY <2>1, <2>2 DEF Linked
<1>2. \A p \in found : p \in AllowedPaths /\ Linked(p)
  BY <1>1
<1>3. Related(seeds) = IF seeds = {} THEN <<>> ELSE rows
  BY DEF Related
<1> HIDE DEF found
<1>4. score \in [Paths -> Nat] /\ \A p \in Paths : score[p] > 0 => p \in found
  OBVIOUS
<1> HIDE DEF score
<1>5. /\ rows \in Seq(Rows) /\ Sorted(rows) /\ Len(rows) <= Candidates
      /\ \A p \in PathsOf(rows) : p \in Paths /\ score[p] > 0
  BY <1>4, CandidatesOf
<1>6. /\ <<>> \in Seq(Rows) /\ Sorted(<<>>) /\ Len(<<>>) <= Candidates /\ PathsOf(<<>>) = {}
  BY LimitAssumption DEF Sorted, PathsOf
<1> HIDE DEF rows
<1> QED
  BY <1>2, <1>3, <1>4, <1>5, <1>6

(* The paths that the map can bring into an answer. *)
Reach == {p \in Paths : Direct(p) \/ Linked(p)}

LEMMA FallbackIs ==
    ASSUME Given
    PROVE  /\ FallbackResults \in Seq(Rows) /\ Sorted(FallbackResults)
           /\ Len(FallbackResults) <= Limit /\ Len(FallbackResults) <= P
           /\ \A i \in 1..Len(FallbackResults) : FallbackResults[i].score > 0
           /\ PathsOf(FallbackResults) \subseteq AllowedPaths \intersect Reach
           /\ \A p, q \in Paths : Leads(p, q) => Ahead(FallbackResults, p, q)
           /\ /\ Cardinality(Reach) <= Limit
              /\ Cardinality(Entries("text")) <= Candidates
              /\ Cardinality(Entries("phrase")) <= Candidates
              => \A p \in Paths : Direct(p) => p \in PathsOf(FallbackResults)
<1> DEFINE seeds == PathsOf(Fuse(Candidates, 1, Channels))
           related == Related(seeds)
           rankings == Append(Channels, Weighted(7, related))
<1>1. Limit \in Nat /\ Candidates \in Nat /\ Limit <= Candidates /\ 1 \in Nat \ {0}
  BY LimitAssumption
<1>2. /\ Listings(Channels) /\ Len(Channels) = 4
      /\ \A i \in 1..4 : \A p \in PathsOf(Channels[i].rows) : p \in AllowedPaths /\ Direct(p)
      /\ \A p, q \in Paths : Leads(p, q) => \A i \in 1..4 : Ahead(Channels[i].rows, p, q)
      /\ \A T \in SUBSET Paths :
           /\ {p \in Paths : Direct(p)} \subseteq T /\ Cardinality(T) <= Candidates
           /\ Cardinality(Entries("text")) <= Candidates
           /\ Cardinality(Entries("phrase")) <= Candidates
           => \A p \in Paths : Direct(p) => \E i \in 1..4 : p \in PathsOf(Channels[i].rows)
  BY ChannelsAre
<1>3. seeds \in SUBSET Paths
  BY <1>1, <1>2, FuseRows, RowsAre
<1>4. /\ related \in Seq(Rows) /\ Sorted(related) /\ Len(related) <= Candidates
      /\ \A p \in PathsOf(related) : p \in AllowedPaths /\ Linked(p)
  BY <1>3, RelatedIs
<1> HIDE DEF seeds, related
<1>5. /\ Len(rankings) = 5
      /\ \A i \in 1..4 : rankings[i] = Channels[i]
      /\ rankings[5].weight = 7 /\ rankings[5].rows = related
  <2>1. PICK a, b, c, d : Channels = <<a, b, c, d>>
    BY DEF Channels
  <2> DEFINE e == Weighted(7, related)
  <2>2. e.weight = 7 /\ e.rows = related
    BY DEF Weighted
  <2> HIDE DEF e
  <2>3. Channels \in Seq({a, b, c, d, e}) /\ Len(Channels) = 4
    BY <2>1
  <2>4. /\ Len(Append(Channels, e)) = 5
        /\ \A i \in 1..4 : Append(Channels, e)[i] = Channels[i]
        /\ Append(Channels, e)[5] = e
    <3> DEFINE S == {a, b, c, d, e}
    <3>1. Channels \in Seq(S) /\ e \in S
      BY <2>3
    <3> HIDE DEF S
    <3>2. /\ Len(Append(Channels, e)) = Len(Channels) + 1
          /\ \A i \in 1..Len(Channels) : Append(Channels, e)[i] = Channels[i]
          /\ Append(Channels, e)[Len(Channels) + 1] = e
      BY <3>1, AppendProperties
    <3> QED
      BY <2>3, <3>2
  <2> QED
    BY <2>2, <2>4 DEF e
<1>6. FallbackResults = Fuse(Limit, 1, rankings)
  BY DEF FallbackResults, seeds, related
<1> HIDE DEF rankings
<1>7. \A i \in 1..5 : i \in 1..4 \/ i = 5
  OBVIOUS
<1>8. Listings(rankings)
  <2>1. Listing(rankings[5])
    BY <1>4, <1>5 DEF Listing
  <2> QED
    BY <1>2, <1>5, <1>7, <2>1 DEF Listings
<1> DEFINE fused == Fuse(Limit, 1, rankings)
<1>9. /\ fused \in Seq(Rows) /\ Sorted(fused)
      /\ Len(fused) <= Limit /\ Len(fused) <= P
      /\ \A i \in 1..Len(fused) : fused[i].score > 0
      /\ \A p \in PathsOf(fused) : \E i \in 1..Len(rankings) : p \in PathsOf(rankings[i].rows)
      /\ \A T \in SUBSET Paths :
           /\ \A i \in 1..Len(rankings) : PathsOf(rankings[i].rows) \subseteq T
           /\ Cardinality(T) <= Limit
           => \A i \in 1..Len(rankings) : PathsOf(rankings[i].rows) \subseteq PathsOf(fused)
      /\ \A p, q \in Paths :
           (\A i \in 1..Len(rankings) : Ahead(rankings[i].rows, p, q)) => Ahead(fused, p, q)
  BY <1>1, <1>8, FuseRows
<1> HIDE DEF fused
<1>10. \A i \in 1..5 : PathsOf(rankings[i].rows) \subseteq AllowedPaths \intersect Reach
  BY <1>2, <1>4, <1>5, <1>7 DEF Reach, AllowedPaths
<1>11. PathsOf(fused) \subseteq AllowedPaths \intersect Reach
  BY <1>5, <1>9, <1>10
<1>12. ASSUME NEW p \in Paths, NEW q \in Paths, Leads(p, q)
       PROVE  Ahead(fused, p, q)
  <2>1. \A i \in 1..4 : Ahead(rankings[i].rows, p, q)
    BY <1>2, <1>5, <1>12
  <2>2. Ahead(rankings[5].rows, p, q)
    <3>1. q \notin PathsOf(related)
      BY <1>4, <1>12 DEF Leads
    <3> QED
      BY <1>4, <1>5, <3>1, RowsAre DEF Ahead
  <2> QED
    BY <1>5, <1>7, <1>9, <2>1, <2>2
<1>13. ASSUME Cardinality(Reach) <= Limit,
              Cardinality(Entries("text")) <= Candidates,
              Cardinality(Entries("phrase")) <= Candidates,
              NEW p \in Paths, Direct(p)
       PROVE  p \in PathsOf(fused)
  <2>1. Reach \in SUBSET Paths /\ {r \in Paths : Direct(r)} \subseteq Reach /\ Cardinality(Reach) \in Nat
    BY PathsFinite DEF Reach
  <2>2. Cardinality(Reach) <= Candidates
    BY <1>1, <1>13, <2>1
  <2>3. PICK i \in 1..4 : p \in PathsOf(Channels[i].rows)
    BY <1>2, <1>13, <2>1, <2>2
  <2>4. \A j \in 1..5 : PathsOf(rankings[j].rows) \subseteq Reach
    BY <1>10
  <2>5. \A j \in 1..5 : PathsOf(rankings[j].rows) \subseteq PathsOf(fused)
    BY <1>5, <1>9, <1>13, <2>1, <2>4
  <2> QED
    BY <1>5, <2>3, <2>5
<1> QED
  BY <1>6, <1>9, <1>11, <1>12, <1>13 DEF fused

(***************************************************************************)
(* QueryPlan: the cache, and the exact search.                             *)
(***************************************************************************)
(* A list of results, as the fallback, the cache and the answer are. *)
Results(rows) ==
    /\ rows \in Seq(Rows) /\ Sorted(rows)
    /\ Len(rows) <= Limit /\ Len(rows) <= P
    /\ \A i \in 1..Len(rows) : rows[i].score > 0

LEMMA SelectRows ==
    ASSUME NEW rows \in Seq(Rows), NEW places \in SUBSET (1..Len(rows))
    PROVE  LET chosen == Select(rows, places) IN
           /\ chosen \in Seq(Rows) /\ Len(chosen) <= Len(rows)
           /\ \A k \in 1..Len(chosen) : \E i \in places : chosen[k] = rows[i]
           /\ PathsOf(chosen) = {rows[i].path : i \in places}
           /\ Sorted(rows) => Sorted(chosen)
           /\ \A p, q : /\ Ahead(rows, p, q)
                        /\ \A i \in 1..Len(rows) : rows[i].path = p => i \in places
                        => Ahead(chosen, p, q)
<1> DEFINE before == {pair \in places \X places : pair[1] < pair[2]}
           order == InOrder(places, before)
           n == Cardinality(places)
           chosen == Select(rows, places)
<1>1. /\ Len(rows) \in Nat /\ IsFiniteSet(1..Len(rows)) /\ Cardinality(1..Len(rows)) = Len(rows)
      /\ \A i \in 1..Len(rows) : rows[i] \in Rows
  <2> DEFINE k == Len(rows)
  <2>1. k \in Nat
    OBVIOUS
  <2> HIDE DEF k
  <2>2. IsFiniteSet(1..k) /\ Cardinality(1..k) = IF 1 > k THEN 0 ELSE k - 1 + 1
    BY <2>1, FS_Interval
  <2>3. IsFiniteSet(1..k) /\ Cardinality(1..k) = k
    BY <2>1, <2>2
  <2> QED
    BY <2>1, <2>3 DEF k
<1>2. IsFiniteSet(places) /\ n \in Nat /\ n <= Len(rows)
  BY <1>1, FS_Subset, FS_CardinalityType
<1>3. \A i, j \in places : <<i, j>> \in before <=> i < j
  OBVIOUS
<1>4. /\ order \in [1..n -> places]
      /\ \A x \in places : \E i \in 1..n : order[i] = x
      /\ \A i, j \in 1..n : i < j <=> <<order[i], order[j]>> \in before
  <2> HIDE DEF before
  <2>1. \A x \in places : x \in Nat
    BY <1>1
  <2>2. \A x \in places : <<x, x>> \notin before
    BY <1>3, <2>1
  <2>3. \A x, y, z \in places : <<x, y>> \in before /\ <<y, z>> \in before => <<x, z>> \in before
    BY <1>3, <2>1
  <2>4. \A x, y \in places : x # y => <<x, y>> \in before \/ <<y, x>> \in before
    BY <1>3, <2>1
  <2> QED
    BY <1>2, <2>2, <2>3, <2>4, InOrderLists
<1>5. chosen = [k \in 1..n |-> rows[order[k]]]
  BY DEF Select
<1> HIDE DEF chosen, order, before, n
<1>6. /\ chosen \in Seq(Rows) /\ Len(chosen) = n
      /\ \A k \in 1..n : order[k] \in places /\ order[k] \in 1..Len(rows) /\ chosen[k] = rows[order[k]]
  <2>1. \A k \in 1..n : order[k] \in places /\ order[k] \in 1..Len(rows)
    BY <1>4
  <2>2. \A k \in 1..n : chosen[k] = rows[order[k]] /\ chosen[k] \in Rows
    BY <1>1, <1>5, <2>1
  <2>3. chosen \in Seq(Rows) /\ Len(chosen) = n
    BY <1>2, <1>5, <2>2
  <2> QED
    BY <2>1, <2>2, <2>3
<1>7. \A i, j \in 1..n : i < j <=> order[i] < order[j]
  BY <1>3, <1>4, <1>6
<1>8. PathsOf(chosen) = {rows[i].path : i \in places}
  <2>1. PathsOf(chosen) = {chosen[k].path : k \in 1..n}
    BY <1>6, RowsAre
  <2>2. ASSUME NEW i \in places PROVE \E k \in 1..n : chosen[k].path = rows[i].path
    BY <1>4, <1>6
  <2>3. \A k \in 1..n : chosen[k].path \in {rows[i].path : i \in places}
    BY <1>6
  <2> QED
    BY <2>1, <2>2, <2>3
<1>9. ASSUME Sorted(rows) PROVE Sorted(chosen)
  BY <1>6, <1>7, <1>9 DEF Sorted
<1>10. ASSUME NEW p, NEW q, Ahead(rows, p, q),
              \A i \in 1..Len(rows) : rows[i].path = p => i \in places
       PROVE  Ahead(chosen, p, q)
  <2> SUFFICES ASSUME NEW k \in 1..n, chosen[k].path = q
               PROVE  \E j \in 1..n : j < k /\ chosen[j].path = p
    BY <1>6 DEF Ahead
  <2>1. PICK i \in 1..Len(rows) : i < order[k] /\ rows[i].path = p
    BY <1>6, <1>10 DEF Ahead
  <2>2. PICK j \in 1..n : order[j] = i
    BY <1>4, <1>10, <2>1
  <2> QED
    BY <1>6, <1>7, <2>1, <2>2
<1> QED
  BY <1>2, <1>6, <1>8, <1>9, <1>10 DEF chosen

LEMMA RescaledRows ==
    ASSUME NEW rows \in Seq(Rows), NEW factor \in Nat \ {0}
    PROVE  LET scaled == Rescaled(rows, factor) IN
           /\ scaled \in Seq(Rows) /\ Len(scaled) = Len(rows)
           /\ \A i \in 1..Len(rows) : scaled[i].path = rows[i].path
           /\ PathsOf(scaled) = PathsOf(rows)
           /\ Sorted(rows) => Sorted(scaled)
           /\ (\A i \in 1..Len(rows) : rows[i].score > 0) => \A i \in 1..Len(rows) : scaled[i].score > 0
           /\ \A p, q : Ahead(rows, p, q) => Ahead(scaled, p, q)
<1> DEFINE scaled == Rescaled(rows, factor)
           n == Len(rows)
<1>1. n \in Nat /\ \A i \in 1..n : rows[i].path \in Paths /\ rows[i].score \in Nat
  BY RowsAre
<1>2. scaled = [i \in 1..n |-> Row(rows[i].path, rows[i].score * factor)]
  BY DEF Rescaled
<1>n. Len(rows) = n
  OBVIOUS
<1> HIDE DEF scaled, n
<1>3. \A i \in 1..n : factor * rows[i].score \in Nat /\ rows[i].score * factor = factor * rows[i].score
  BY <1>1, ProductNat
<1>4. /\ scaled \in Seq(Rows) /\ Len(scaled) = n
      /\ \A i \in 1..n : scaled[i].path = rows[i].path /\ scaled[i].score = factor * rows[i].score
  <2>1. \A i \in 1..n : scaled[i] = Row(rows[i].path, rows[i].score * factor)
    BY <1>2
  <2>2. ASSUME NEW i \in 1..n
        PROVE  /\ scaled[i].path = rows[i].path /\ scaled[i].score = factor * rows[i].score
               /\ scaled[i] \in Rows
    <3> DEFINE score == factor * rows[i].score
    <3>1. rows[i].path \in Paths /\ score \in Nat /\ scaled[i] = Row(rows[i].path, score)
      BY <1>1, <1>3, <2>1
    <3> HIDE DEF score
    <3>2. /\ scaled[i].path = rows[i].path /\ scaled[i].score = score
          /\ scaled[i] \in Rows
      BY <3>1 DEF Row, Rows
    <3> QED
      BY <3>2 DEF score
  <2> QED
    BY <1>1, <1>2, <2>2
<1>5. PathsOf(scaled) = PathsOf(rows)
  <2>1. PathsOf(scaled) = {scaled[i].path : i \in 1..n} /\ PathsOf(rows) = {rows[i].path : i \in 1..n}
    BY <1>4, RowsAre DEF n
  <2> QED
    BY <1>4, <2>1
<1>6. ASSUME Sorted(rows) PROVE Sorted(scaled)
  <2> SUFFICES ASSUME NEW i \in 1..n, NEW j \in 1..n, i < j PROVE scaled[i].score >= scaled[j].score
    BY <1>4 DEF Sorted
  <2>1. rows[j].score <= rows[i].score
    BY <1>1, <1>6, <1>n DEF Sorted
  <2>2. factor * rows[j].score <= factor * rows[i].score
    BY <1>1, <2>1, ProductLess
  <2> QED
    BY <1>3, <1>4, <2>2
<1>7. ASSUME NEW i \in 1..n, rows[i].score > 0 PROVE scaled[i].score > 0
  BY <1>1, <1>4, <1>7, ProductNat
<1>8. ASSUME NEW p, NEW q, Ahead(rows, p, q) PROVE Ahead(scaled, p, q)
  BY <1>4, <1>8, <1>n DEF Ahead
<1> QED
  BY <1>4, <1>5, <1>6, <1>7, <1>8, <1>n DEF scaled

LEMMA UnitsAre == RowUnit \in Nat \ {0} /\ MapUnit \in Nat \ {0}
BY ScaleNat, ProductNat DEF RowUnit, MapUnit

LEMMA UnscoredIs ==
    ASSUME Given, NEW list \in FullTextLists
    PROVE  /\ Listing(Weighted(20, Unscored(list)))
           /\ Weighted(20, Unscored(list)).rows = Unscored(list)
           /\ PathsOf(Unscored(list)) \subseteq Recorded
           /\ \A p, q : Precedes(list, p, q) => Ahead(Unscored(list), p, q)
<1>1. PICK n \in 0..Hits : n <= Cardinality(Recorded) /\ list \in [1..n -> Recorded]
  BY DEF FullTextLists
<1>2. Recorded \in SUBSET Paths /\ n \in Nat /\ n <= P
  <2>1. Recorded \in SUBSET Paths
    BY DEF Recorded
  <2>2. Cardinality(Recorded) \in Nat /\ Cardinality(Recorded) <= P /\ P \in Nat /\ Hits \in Nat
    BY <2>1, PathsFinite, LimitAssumption
  <2> QED
    BY <1>1, <2>1, <2>2
<1>3. Len(list) = n /\ DOMAIN list = 1..n
  BY <1>1, <1>2
<1> DEFINE rows == Unscored(list)
<1>4. \A i \in 1..n : rows[i] = Row(list[i], 0) /\ list[i] \in Recorded /\ list[i] \in Paths
  BY <1>1, <1>2, <1>3 DEF Unscored
<1>5. rows = [i \in 1..n |-> Row(list[i], 0)]
  BY <1>3 DEF Unscored
<1> HIDE DEF rows
<1>6. ASSUME NEW i \in 1..n
      PROVE  rows[i].path = list[i] /\ rows[i].score = 0 /\ rows[i] \in Rows
  <2>1. rows[i] = [path |-> list[i], score |-> 0] /\ list[i] \in Paths
    BY <1>4 DEF Row
  <2> QED
    BY <2>1 DEF Rows
<1>7. rows \in Seq(Rows) /\ Len(rows) = n
  BY <1>2, <1>5, <1>6
<1>8. Sorted(rows)
  BY <1>6, <1>7 DEF Sorted
<1>9. Listing(Weighted(20, rows)) /\ Weighted(20, rows).rows = rows
  BY <1>2, <1>7, <1>8 DEF Listing, Weighted
<1>10. PathsOf(rows) \subseteq Recorded
  BY <1>4, <1>6, <1>7, RowsAre
<1>11. ASSUME NEW p, NEW q, Precedes(list, p, q) PROVE Ahead(rows, p, q)
  <2> SUFFICES ASSUME NEW j \in 1..n, rows[j].path = q PROVE \E i \in 1..n : i < j /\ rows[i].path = p
    BY <1>7 DEF Ahead
  <2>1. PICK i \in 1..(j - 1) : list[i] = p
    BY <1>3, <1>6, <1>11 DEF Precedes
  <2> QED
    BY <1>2, <1>6, <2>1
<1> QED
  BY <1>9, <1>10, <1>11 DEF rows

LEMMA RecordedAllowed ==
    ASSUME Given, ~CachePlanNeedsRecordFilter
    PROVE  Recorded \subseteq AllowedPaths
<1> SUFFICES ASSUME NEW p \in Paths, Len(corpus[p].records) > 0
             PROVE  EntriesOf(p) # {}
  BY DEF Recorded, AllowedPaths
<1>1. 1 \in DOMAIN corpus[p].records
  BY RecordsAre
<1>2. plan.shards = {} /\ plan.languages = {} /\ ~plan.noTests
  BY DEF CachePlanNeedsRecordFilter
<1> QED
  BY <1>1, <1>2 DEF EntriesOf, InPlan, Allows

(* What is left of the cache's rows. *)
LEMMA CachedIs ==
    ASSUME Given, NEW a \in FullTextLists, NEW b \in FullTextLists
    PROVE  LET rows == Filtered(EngineResults(<<a, b>>)) IN
           /\ Results(rows)
           /\ PathsOf(rows) \subseteq AllowedPaths
           /\ \A p, q \in Paths :
                p \in AllowedPaths /\ Precedes(a, p, q) /\ Precedes(b, p, q) => Ahead(rows, p, q)
<1> DEFINE pair == <<a, b>>
           rankings == [i \in 1..Len(pair) |-> Weighted(20, Unscored(pair[i]))]
           engine == Fuse(Limit, 1, rankings)
           places == {i \in DOMAIN engine : engine[i].path \in AllowedPaths}
           rows == Filtered(engine)
<1>1. EngineResults(<<a, b>>) = engine
  BY DEF EngineResults
<1>2. /\ Len(rankings) = 2
      /\ rankings[1] = Weighted(20, Unscored(a)) /\ rankings[2] = Weighted(20, Unscored(b))
  OBVIOUS
<1> HIDE DEF rankings
<1>3. \A i \in 1..2 : i = 1 \/ i = 2
  OBVIOUS
<1>4. /\ Listings(rankings)
      /\ \A i \in 1..2 : PathsOf(rankings[i].rows) \subseteq Recorded
      /\ \A p, q : Precedes(a, p, q) /\ Precedes(b, p, q) => \A i \in 1..2 : Ahead(rankings[i].rows, p, q)
  BY <1>2, <1>3, UnscoredIs DEF Listings
<1>5. Limit \in Nat /\ 1 \in Nat \ {0}
  BY LimitAssumption
<1>6. /\ Results(engine)
      /\ PathsOf(engine) \subseteq Recorded
      /\ \A p, q \in Paths :
           Precedes(a, p, q) /\ Precedes(b, p, q) => Ahead(engine, p, q)
  BY <1>2, <1>4, <1>5, FuseRows DEF Results
<1> HIDE DEF engine
<1>7. CASE ~CachePlanNeedsRecordFilter
  <2>1. rows = engine
    BY <1>7 DEF Filtered
  <2> QED
    BY <1>1, <1>6, <1>7, <2>1, RecordedAllowed
<1>8. CASE CachePlanNeedsRecordFilter
  <2>1. rows = Select(engine, places)
    BY <1>8 DEF Filtered
  <2>2. /\ engine \in Seq(Rows) /\ Len(engine) \in Nat /\ DOMAIN engine = 1..Len(engine)
        /\ Sorted(engine) /\ Len(engine) <= Limit /\ Len(engine) <= P
        /\ \A i \in 1..Len(engine) : engine[i].score > 0
    BY <1>6, RowsAre DEF Results
  <2>3. places \in SUBSET (1..Len(engine)) /\ \A i \in places : engine[i].path \in AllowedPaths
    BY <2>2
  <2>4. \A p \in AllowedPaths : \A i \in 1..Len(engine) : engine[i].path = p => i \in places
    BY <2>2
  <2> HIDE DEF places
  <2>5. /\ rows \in Seq(Rows) /\ Len(rows) <= Len(engine)
        /\ \A k \in 1..Len(rows) : \E i \in places : rows[k] = engine[i]
        /\ PathsOf(rows) = {engine[i].path : i \in places}
        /\ Sorted(rows)
        /\ \A p, q : /\ Ahead(engine, p, q)
                     /\ \A i \in 1..Len(engine) : engine[i].path = p => i \in places
                     => Ahead(rows, p, q)
    BY <2>1, <2>2, <2>3, SelectRows
  <2> HIDE DEF rows
  <2>6. Len(rows) \in Nat /\ P \in Nat
    BY <2>5, RowsAre, LimitAssumption
  <2>7. Results(rows)
    BY <1>5, <2>2, <2>3, <2>5, <2>6 DEF Results
  <2>8. PathsOf(rows) \subseteq AllowedPaths
    BY <2>3, <2>5
  <2>9. \A p, q \in Paths :
          p \in AllowedPaths /\ Precedes(a, p, q) /\ Precedes(b, p, q) => Ahead(rows, p, q)
    BY <1>6, <2>4, <2>5
  <2> QED
    BY <1>1, <2>7, <2>8, <2>9 DEF rows
<1> QED
  BY <1>7, <1>8

(* FuseRows, of two lists. *)
LEMMA FuseTwo ==
    ASSUME NEW a \in Seq(Rows), Sorted(a), Len(a) <= P,
           NEW b \in Seq(Rows), Sorted(b), Len(b) <= P, NEW unit \in Nat \ {0}
    PROVE  LET fused == Fuse(Limit, unit, <<Weighted(1, a), Weighted(2, b)>>) IN
           /\ Results(fused)
           /\ PathsOf(fused) \subseteq PathsOf(a) \union PathsOf(b)
           /\ \A T \in SUBSET Paths :
                PathsOf(a) \union PathsOf(b) \subseteq T /\ Cardinality(T) <= Limit =>
                   PathsOf(a) \union PathsOf(b) \subseteq PathsOf(fused)
           /\ \A p, q \in Paths : Ahead(a, p, q) /\ Ahead(b, p, q) => Ahead(fused, p, q)
<1> DEFINE rankings == <<Weighted(1, a), Weighted(2, b)>>
           fused == Fuse(Limit, unit, rankings)
<1>1. /\ Len(rankings) = 2
      /\ rankings[1].weight = 1 /\ rankings[1].rows = a
      /\ rankings[2].weight = 2 /\ rankings[2].rows = b
  BY DEF Weighted
<1> HIDE DEF rankings
<1>2. \A i \in 1..2 : i = 1 \/ i = 2
  OBVIOUS
<1>3. Listings(rankings)
  <2>1. Listing(rankings[1]) /\ Listing(rankings[2])
    BY <1>1 DEF Listing
  <2> QED
    BY <1>1, <1>2, <2>1 DEF Listings
<1>4. /\ fused \in Seq(Rows) /\ Sorted(fused)
      /\ Len(fused) <= Limit /\ Len(fused) <= P
      /\ \A i \in 1..Len(fused) : fused[i].score > 0
      /\ \A p \in PathsOf(fused) : \E i \in 1..Len(rankings) : p \in PathsOf(rankings[i].rows)
      /\ \A T \in SUBSET Paths :
           /\ \A i \in 1..Len(rankings) : PathsOf(rankings[i].rows) \subseteq T
           /\ Cardinality(T) <= Limit
           => \A i \in 1..Len(rankings) : PathsOf(rankings[i].rows) \subseteq PathsOf(fused)
      /\ \A p, q \in Paths :
           (\A i \in 1..Len(rankings) : Ahead(rankings[i].rows, p, q)) => Ahead(fused, p, q)
  BY <1>3, FuseRows, LimitAssumption
<1> HIDE DEF fused
<1>5. PathsOf(fused) \subseteq PathsOf(a) \union PathsOf(b)
  BY <1>1, <1>2, <1>4
<1>6. ASSUME NEW T \in SUBSET Paths, PathsOf(a) \union PathsOf(b) \subseteq T, Cardinality(T) <= Limit
      PROVE  PathsOf(a) \union PathsOf(b) \subseteq PathsOf(fused)
  <2>1. \A i \in 1..Len(rankings) : PathsOf(rankings[i].rows) \subseteq T
    BY <1>1, <1>2, <1>6
  <2>2. \A i \in 1..Len(rankings) : PathsOf(rankings[i].rows) \subseteq PathsOf(fused)
    BY <1>4, <1>6, <2>1
  <2> QED
    BY <1>1, <2>2
<1>7. \A p, q \in Paths : Ahead(a, p, q) /\ Ahead(b, p, q) => Ahead(fused, p, q)
  BY <1>1, <1>2, <1>4
<1> QED
  BY <1>4, <1>5, <1>6, <1>7 DEF Results, fused, rankings

(* An empty list is a list of results. *)
LEMMA NoRows ==
    /\ Results(<<>>) /\ PathsOf(<<>>) = {} /\ \A p, q : Ahead(<<>>, p, q)
BY LimitAssumption DEF Results, Sorted, PathsOf, Ahead

(* The rows of the cache and of the fallback, as one list. *)
LEMMA MergedIs ==
    ASSUME NEW rows, Results(rows), Results(fallback)
    PROVE  LET merged == FuseCacheFallback(rows) IN
           /\ Results(merged)
           /\ PathsOf(merged) \subseteq PathsOf(rows) \union PathsOf(fallback)
           /\ \A T \in SUBSET Paths :
                PathsOf(rows) \union PathsOf(fallback) \subseteq T /\ Cardinality(T) <= Limit =>
                   PathsOf(rows) \union PathsOf(fallback) \subseteq PathsOf(merged)
           /\ \A p, q \in Paths : Ahead(rows, p, q) /\ Ahead(fallback, p, q) => Ahead(merged, p, q)
<1> DEFINE merged == FuseCacheFallback(rows)
<1>1. CASE rows = <<>>
  <2>1. merged = Rescaled(fallback, Scale)
    BY <1>1 DEF FuseCacheFallback
  <2>2. fallback \in Seq(Rows)
    BY DEF Results
  <2>3. /\ merged \in Seq(Rows) /\ Len(merged) = Len(fallback)
        /\ PathsOf(merged) = PathsOf(fallback)
        /\ Sorted(fallback) => Sorted(merged)
        /\ (\A i \in 1..Len(fallback) : fallback[i].score > 0) =>
              \A i \in 1..Len(fallback) : merged[i].score > 0
        /\ \A p, q : Ahead(fallback, p, q) => Ahead(merged, p, q)
    BY <2>1, <2>2, ScaleNat, RescaledRows
  <2> HIDE DEF merged
  <2>4. Results(merged)
    BY <2>3 DEF Results
  <2> QED
    BY <1>1, <2>3, <2>4, NoRows DEF merged
<1>2. CASE rows # <<>>
  <2>1. merged = Fuse(Limit, RowUnit, <<Weighted(1, rows), Weighted(2, fallback)>>)
    BY <1>2 DEF FuseCacheFallback
  <2>2. /\ rows \in Seq(Rows) /\ Sorted(rows) /\ Len(rows) <= P
        /\ fallback \in Seq(Rows) /\ Sorted(fallback) /\ Len(fallback) <= P
    BY DEF Results
  <2> HIDE DEF merged
  <2> QED
    BY <2>1, <2>2, UnitsAre, FuseTwo DEF merged
<1> QED
  BY <1>1, <1>2

(* An answer with the exact matches. *)
LEMMA AugmentIs ==
    ASSUME NEW counts \in [Paths -> 0..Occurrences], Results(answer)
    PROVE  LET augmented == Augment(counts)
               matched == {p \in Paths : counts[p] > 0}
           IN
           /\ Results(augmented)
           /\ PathsOf(augmented) \subseteq PathsOf(answer) \union matched
           /\ \A T \in SUBSET Paths :
                PathsOf(answer) \union matched \subseteq T /\ Cardinality(T) <= Limit =>
                   PathsOf(answer) \union matched \subseteq PathsOf(augmented)
           /\ \A p, q \in Paths : Ahead(answer, p, q) /\ Before(p, q, counts) => Ahead(augmented, p, q)
<1> DEFINE augmented == Augment(counts)
           matched == {p \in Paths : counts[p] > 0}
           ranked == RankedPaths(counts)
           rows == ExactResults(counts)
<1>1. counts \in [Paths -> Nat]
  BY LimitAssumption
<1>2. /\ ranked \in Seq(Rows) /\ PathsOf(ranked) = matched
      /\ Len(ranked) <= P /\ Sorted(ranked)
      /\ \A p, q \in Paths : Before(p, q, counts) => Ahead(ranked, p, q)
  BY <1>1, RankedPathsRows
<1>3. rows = Rescaled(ranked, MapUnit)
  BY DEF ExactResults
<1> HIDE DEF matched, ranked, rows
<1>4. /\ rows \in Seq(Rows) /\ PathsOf(rows) = matched
      /\ Len(rows) <= P /\ Sorted(rows)
      /\ \A p, q \in Paths : Before(p, q, counts) => Ahead(rows, p, q)
  BY <1>2, <1>3, UnitsAre, RescaledRows
<1>5. CASE rows = <<>>
  <2>1. augmented = answer /\ matched = {}
    BY <1>4, <1>5, NoRows DEF Augment, rows
  <2> QED
    BY <2>1 DEF matched
<1>6. CASE rows # <<>>
  <2>1. augmented = Fuse(Limit, MapUnit, <<Weighted(1, answer), Weighted(2, rows)>>)
    BY <1>6 DEF Augment, rows
  <2>2. answer \in Seq(Rows) /\ Sorted(answer) /\ Len(answer) <= P
    BY DEF Results
  <2> HIDE DEF augmented
  <2>3. /\ Results(augmented)
        /\ PathsOf(augmented) \subseteq PathsOf(answer) \union PathsOf(rows)
        /\ \A T \in SUBSET Paths :
             PathsOf(answer) \union PathsOf(rows) \subseteq T /\ Cardinality(T) <= Limit =>
                PathsOf(answer) \union PathsOf(rows) \subseteq PathsOf(augmented)
        /\ \A p, q \in Paths : Ahead(answer, p, q) /\ Ahead(rows, p, q) => Ahead(augmented, p, q)
    BY <1>4, <2>1, <2>2, UnitsAre, FuseTwo
  <2> QED
    BY <1>4, <2>3 DEF augmented, matched
<1> QED
  BY <1>5, <1>6

(* What the map says of the plan is the same in every state of a query. *)
LEMMA SameMap ==
    ASSUME UNCHANGED <<corpus, links, plan>>
    PROVE  /\ Given' <=> Given
           /\ AllowedPaths' = AllowedPaths /\ Reach' = Reach
           /\ \A p : Direct(p)' <=> Direct(p)
           /\ \A p : Linked(p)' <=> Linked(p)
           /\ \A channel : Entries(channel)' = Entries(channel)
           /\ \A p, q : Leads(p, q)' <=> Leads(p, q)
<1>1. \A p, r : (InPlan(p, r)' <=> InPlan(p, r)) /\ (Allows(p, r)' <=> Allows(p, r))
  BY DEF InPlan, Allows
<1>2. \A p : EntriesOf(p)' = EntriesOf(p)
  BY <1>1 DEF EntriesOf
<1>3. \A p, i, channel : Score(p, i, channel)' = Score(p, i, channel)
  BY DEF Score
<1>4. AllowedPaths' = AllowedPaths
  BY <1>2 DEF AllowedPaths
<1>5. \A channel : Entries(channel)' = Entries(channel)
  BY <1>2, <1>3 DEF Entries
<1>6. \A channel : Best(channel)' = Best(channel)
  BY <1>2, <1>3 DEF Best
<1>7. Hint' = Hint
  BY <1>4 DEF Hint
<1>8. \A p : Direct(p)' <=> Direct(p)
  BY <1>6, <1>7 DEF Direct
<1>9. \A p : Linked(p)' <=> Linked(p)
  BY DEF Linked
<1>10. Reach' = Reach
  BY <1>8, <1>9 DEF Reach
<1>11. \A p, q : Leads(p, q)' <=> Leads(p, q)
  BY <1>4, <1>6, <1>7, <1>9 DEF Leads, Before
<1>12. Given' <=> Given
  BY DEF Given
<1> QED
  BY <1>4, <1>5, <1>8, <1>9, <1>10, <1>11, <1>12

(***************************************************************************)
(* QueryPlan: the invariant and the steps.                                 *)
(***************************************************************************)
(* Before a stage, what it is to find is empty. *)
NotYet ==
    /\ stage = "fallback" => fallback = <<>>
    /\ stage \in {"fallback", "cache"} => lists = <<>> /\ cached = <<>> /\ answer = <<>>
    /\ stage \in {"fallback", "cache", "exact"} => exact = None

(* What the lists are. *)
PlanType ==
    /\ Given
    /\ stage \in {"fallback", "cache", "exact", "done", "failed"}
    /\ exact \in [Paths -> 0..Occurrences]
    /\ Results(fallback) /\ Results(cached) /\ Results(answer)

(* Where the paths of the lists come from. *)
Matched == {p \in Paths : exact[p] > 0}
Origin ==
    /\ PathsOf(fallback) \subseteq AllowedPaths \intersect Reach
    /\ PathsOf(cached) \subseteq AllowedPaths
    /\ PathsOf(answer) \subseteq AllowedPaths \union Matched
    /\ PathsOf(answer) \subseteq Reach \union PathsOf(cached) \union Matched

(* A path that leads another in the map is ahead of it in the fallback; if *)
(* also in the cache and the exact matches, then in the answer.            *)
InLead ==
    \A p, q \in Paths :
        /\ Leads(p, q) => Ahead(fallback, p, q)
        /\ Dominates(p, q) => Ahead(answer, p, q)

NoMoreThanLimits(T) ==
    /\ Cardinality(T) <= Limit
    /\ Cardinality(Entries("text")) <= Candidates
    /\ Cardinality(Entries("phrase")) <= Candidates

DirectPaths == {p \in Paths : Direct(p)}

(* With no more than the limits, nothing is cut. *)
NothingCut ==
    /\ stage \in {"cache", "exact", "done"} /\ NoMoreThanLimits(Reach) =>
          DirectPaths \subseteq PathsOf(fallback)
    /\ stage \in {"exact", "done"} /\ NoMoreThanLimits(Reach \union PathsOf(cached) \union Matched) =>
          DirectPaths \union Matched \subseteq PathsOf(answer)

PlanInv == PlanType /\ NotYet /\ Origin /\ InLead /\ NothingCut

LEMMA NoneMatched == None \in [Paths -> 0..Occurrences] /\ (exact = None => Matched = {})
BY LimitAssumption DEF None, Matched

LEMMA DominatesLeads ==
    ASSUME NEW p, NEW q
    PROVE  /\ Dominates(p, q) <=> /\ Leads(p, q)
                                  /\ \A i \in DOMAIN lists : Precedes(lists[i], p, q)
                                  /\ Before(p, q, exact)
           /\ Dominates(p, q)' <=> /\ Leads(p, q)'
                                   /\ \A i \in DOMAIN lists' : Precedes(lists'[i], p, q)
                                   /\ Before(p, q, exact')
BY DEF Dominates, Leads, Kinds

LEMMA PlanInvInit == PlanInit => PlanInv
<1> SUFFICES ASSUME PlanInit PROVE PlanInv
  OBVIOUS
<1>1. /\ Given /\ stage = "fallback" /\ exact = None
      /\ fallback = <<>> /\ lists = <<>> /\ cached = <<>> /\ answer = <<>>
  BY DEF PlanInit, Given
<1>2. Results(<<>>) /\ PathsOf(<<>>) = {} /\ \A p, q : Ahead(<<>>, p, q)
  BY NoRows
<1>3. PlanType
  BY <1>1, <1>2, NoneMatched DEF PlanType
<1>4. NotYet
  BY <1>1 DEF NotYet
<1>5. Origin
  BY <1>1, <1>2 DEF Origin
<1>6. InLead
  BY <1>1, <1>2 DEF InLead
<1>7. NothingCut
  BY <1>1 DEF NothingCut
<1> QED
  BY <1>3, <1>4, <1>5, <1>6, <1>7 DEF PlanInv

(* A step that changes no list. *)
LEMMA SameLists ==
    ASSUME UNCHANGED <<corpus, links, plan, fallback, lists, cached, exact, answer>>, PlanInv,
           stage' \in {stage, "failed"}
    PROVE  PlanInv'
<1>1. UNCHANGED <<corpus, links, plan>>
  OBVIOUS
<1>2. /\ Given' <=> Given
      /\ AllowedPaths' = AllowedPaths /\ Reach' = Reach
      /\ \A p : Direct(p)' <=> Direct(p)
      /\ \A channel : Entries(channel)' = Entries(channel)
      /\ \A p, q : Leads(p, q)' <=> Leads(p, q)
  BY <1>1, SameMap
<1>3. PlanType'
  BY <1>2 DEF PlanInv, PlanType, Results, Sorted
<1>4. NotYet'
  BY DEF PlanInv, NotYet, None
<1>5. Matched' = Matched /\ \A p, q : Dominates(p, q)' <=> Dominates(p, q)
  BY <1>1, <1>2, DominatesLeads DEF Matched
<1>6. Origin'
  BY <1>2, <1>5 DEF PlanInv, Origin
<1>7. InLead'
  BY <1>2, <1>5 DEF PlanInv, InLead
<1>8. NothingCut'
  BY <1>2, <1>5 DEF PlanInv, NothingCut, NoMoreThanLimits, DirectPaths
<1> QED
  BY <1>3, <1>4, <1>6, <1>7, <1>8 DEF PlanInv

LEMMA FallbackStep == PlanInv /\ QueryFallback => PlanInv'
<1> SUFFICES ASSUME PlanInv, QueryFallback PROVE PlanInv'
  OBVIOUS
<1>0. /\ UNCHANGED <<corpus, links, plan>> /\ UNCHANGED <<lists, cached, exact, answer>>
      /\ stage = "fallback" /\ stage' = "cache" /\ fallback' = FallbackResults
  BY DEF QueryFallback
<1>1. /\ Given /\ exact = None /\ lists = <<>> /\ cached = <<>> /\ answer = <<>>
  BY <1>0 DEF PlanInv, PlanType, NotYet
<1>2. /\ Given' <=> Given
      /\ AllowedPaths' = AllowedPaths /\ Reach' = Reach
      /\ \A p : Direct(p)' <=> Direct(p)
      /\ \A channel : Entries(channel)' = Entries(channel)
      /\ \A p, q : Leads(p, q)' <=> Leads(p, q)
  BY <1>0, SameMap
<1>3. /\ Results(fallback')
      /\ PathsOf(fallback') \subseteq AllowedPaths \intersect Reach
      /\ \A p, q \in Paths : Leads(p, q) => Ahead(fallback', p, q)
      /\ NoMoreThanLimits(Reach) => DirectPaths \subseteq PathsOf(fallback')
  BY <1>0, <1>1, FallbackIs DEF Results, NoMoreThanLimits, DirectPaths
<1>4. PlanType'
  BY <1>0, <1>2, <1>3 DEF PlanInv, PlanType, Results, Sorted
<1>5. NotYet'
  BY <1>0, <1>1 DEF NotYet, None
<1>6. Origin'
  BY <1>0, <1>1, <1>2, <1>3, NoRows DEF Origin
<1>7. InLead'
  BY <1>0, <1>1, <1>2, <1>3, NoRows DEF InLead
<1>8. NothingCut'
  BY <1>0, <1>2, <1>3 DEF NothingCut, NoMoreThanLimits, DirectPaths
<1> QED
  BY <1>4, <1>5, <1>6, <1>7, <1>8 DEF PlanInv

LEMMA CacheStep == PlanInv /\ QueryCache => PlanInv'
<1> SUFFICES ASSUME PlanInv, QueryCache PROVE PlanInv'
  OBVIOUS
<1>0. /\ UNCHANGED <<corpus, links, plan>> /\ UNCHANGED <<fallback, exact>>
      /\ stage = "cache" /\ stage' = "exact"
      /\ cached' = Filtered(EngineResults(lists')) /\ answer' = FuseCacheFallback(cached')
  BY DEF QueryCache
<1>p. PICK a \in FullTextLists, b \in FullTextLists : lists' = <<a, b>>
  BY DEF QueryCache
<1>1. /\ Given /\ exact = None /\ Matched = {} /\ Results(fallback)
  BY <1>0, NoneMatched DEF PlanInv, PlanType, NotYet
<1>2. /\ Given' <=> Given
      /\ AllowedPaths' = AllowedPaths /\ Reach' = Reach
      /\ \A p : Direct(p)' <=> Direct(p)
      /\ \A channel : Entries(channel)' = Entries(channel)
      /\ \A p, q : Leads(p, q)' <=> Leads(p, q)
  BY <1>0, SameMap
<1>3. /\ Results(cached')
      /\ PathsOf(cached') \subseteq AllowedPaths
      /\ \A p, q \in Paths :
           p \in AllowedPaths /\ Precedes(a, p, q) /\ Precedes(b, p, q) => Ahead(cached', p, q)
  BY <1>0, <1>1, <1>p, CachedIs
<1>4. /\ Results(answer')
      /\ PathsOf(answer') \subseteq PathsOf(cached') \union PathsOf(fallback)
      /\ \A T \in SUBSET Paths :
           PathsOf(cached') \union PathsOf(fallback) \subseteq T /\ Cardinality(T) <= Limit =>
              PathsOf(cached') \union PathsOf(fallback) \subseteq PathsOf(answer')
      /\ \A p, q \in Paths :
           Ahead(cached', p, q) /\ Ahead(fallback, p, q) => Ahead(answer', p, q)
  BY <1>0, <1>1, <1>3, MergedIs
<1>5. Matched' = {}
  BY <1>0, <1>1 DEF Matched
<1>6. PlanType'
  <2>1. /\ Results(fallback)' /\ Results(cached)' /\ Results(answer)'
    BY <1>0, <1>1, <1>3, <1>4 DEF Results, Sorted
  <2> QED
    BY <1>0, <1>2, <2>1 DEF PlanInv, PlanType
<1>7. NotYet'
  BY <1>0, <1>1 DEF NotYet, None
<1>8. Origin'
  BY <1>0, <1>2, <1>3, <1>4, <1>5 DEF PlanInv, Origin
<1>9. InLead'
  <2> SUFFICES ASSUME NEW p \in Paths, NEW q \in Paths
               PROVE  /\ Leads(p, q)' => Ahead(fallback, p, q)'
                      /\ Dominates(p, q)' => Ahead(answer, p, q)'
    BY DEF InLead
  <2>1. Leads(p, q) => Ahead(fallback, p, q)
    BY DEF PlanInv, InLead
  <2>2. ASSUME Dominates(p, q)' PROVE Ahead(answer', p, q)
    <3>1. Leads(p, q)' /\ \A i \in DOMAIN lists' : Precedes(lists'[i], p, q)
      BY <2>2, DominatesLeads
    <3>2. Leads(p, q) /\ Precedes(a, p, q) /\ Precedes(b, p, q)
      BY <1>2, <1>p, <3>1
    <3> QED
      BY <1>3, <1>4, <2>1, <3>2 DEF Leads
  <2> QED
    BY <1>0, <1>2, <2>1, <2>2 DEF Ahead
<1>10. NothingCut'
  <2> DEFINE T == Reach \union PathsOf(cached')
  <2>1. ASSUME NoMoreThanLimits(T) PROVE DirectPaths \subseteq PathsOf(answer')
    <3>1. /\ T \in SUBSET Paths /\ Reach \subseteq T
          /\ PathsOf(cached') \subseteq T /\ PathsOf(fallback) \subseteq Reach
      BY <1>3 DEF PlanInv, Origin, Reach, AllowedPaths
    <3> HIDE DEF T
    <3>2. Cardinality(Reach) <= Cardinality(T) /\ Cardinality(Reach) \in Nat /\ Cardinality(T) \in Nat
      <4>1. IsFiniteSet(T) /\ Cardinality(T) \in Nat /\ Reach \in SUBSET Paths
        BY <3>1, PathsFinite
      <4> QED
        BY <3>1, <4>1, PathsFinite, FS_Subset
    <3>3. NoMoreThanLimits(Reach)
      BY <2>1, <3>2, LimitAssumption DEF NoMoreThanLimits
    <3>4. DirectPaths \subseteq PathsOf(fallback)
      BY <1>0, <3>3 DEF PlanInv, NothingCut
    <3>5. PathsOf(cached') \union PathsOf(fallback) \subseteq PathsOf(answer')
      BY <1>4, <2>1, <3>1 DEF NoMoreThanLimits
    <3> QED
      BY <3>4, <3>5
  <2> QED
    BY <1>0, <1>2, <1>5, <2>1 DEF PlanInv, NothingCut, NoMoreThanLimits, DirectPaths
<1> QED
  BY <1>6, <1>7, <1>8, <1>9, <1>10 DEF PlanInv

LEMMA ExactStep == PlanInv /\ SearchExact => PlanInv'
<1> SUFFICES ASSUME PlanInv, SearchExact PROVE PlanInv'
  OBVIOUS
<1>0. /\ UNCHANGED <<corpus, links, plan>> /\ UNCHANGED <<fallback, lists, cached>>
      /\ stage = "exact" /\ stage' = "done"
      /\ exact' \in [Paths -> 0..Occurrences] /\ answer' = Augment(exact')
  BY DEF SearchExact
<1>1. /\ Given /\ exact = None /\ Matched = {} /\ Results(answer)
  BY <1>0, NoneMatched DEF PlanInv, PlanType, NotYet
<1>2. /\ Given' <=> Given
      /\ AllowedPaths' = AllowedPaths /\ Reach' = Reach
      /\ \A p : Direct(p)' <=> Direct(p)
      /\ \A channel : Entries(channel)' = Entries(channel)
      /\ \A p, q : Leads(p, q)' <=> Leads(p, q)
  BY <1>0, SameMap
<1>3. Matched' = {p \in Paths : exact'[p] > 0}
  BY DEF Matched
<1>4. /\ Results(answer')
      /\ PathsOf(answer') \subseteq PathsOf(answer) \union Matched'
      /\ \A T \in SUBSET Paths :
           PathsOf(answer) \union Matched' \subseteq T /\ Cardinality(T) <= Limit =>
              PathsOf(answer) \union Matched' \subseteq PathsOf(answer')
      /\ \A p, q \in Paths :
           Ahead(answer, p, q) /\ Before(p, q, exact') => Ahead(answer', p, q)
  BY <1>0, <1>1, <1>3, AugmentIs
<1>5. PlanType'
  <2>1. /\ Results(fallback)' /\ Results(cached)' /\ Results(answer)'
    BY <1>0, <1>1, <1>4 DEF PlanInv, PlanType, Results, Sorted
  <2> QED
    BY <1>0, <1>2, <2>1 DEF PlanInv, PlanType
<1>6. NotYet'
  BY <1>0 DEF NotYet
<1>7. Origin'
  BY <1>0, <1>1, <1>2, <1>4 DEF PlanInv, Origin
<1>8. InLead'
  <2> SUFFICES ASSUME NEW p \in Paths, NEW q \in Paths
               PROVE  /\ Leads(p, q)' => Ahead(fallback, p, q)'
                      /\ Dominates(p, q)' => Ahead(answer, p, q)'
    BY DEF InLead
  <2>1. (Leads(p, q) => Ahead(fallback, p, q)) /\ (Dominates(p, q) => Ahead(answer, p, q))
    BY DEF PlanInv, InLead
  <2>2. ASSUME Dominates(p, q)' PROVE Ahead(answer', p, q)
    <3>1. /\ Leads(p, q) /\ \A i \in DOMAIN lists : Precedes(lists[i], p, q)
          /\ Before(p, q, exact')
      BY <1>0, <1>2, <2>2, DominatesLeads
    <3>2. Before(p, q, exact)
      BY <1>1 DEF Before, None
    <3>3. Dominates(p, q)
      BY <3>1, <3>2, DominatesLeads
    <3> QED
      BY <1>4, <2>1, <3>1, <3>3
  <2> QED
    BY <1>0, <1>2, <2>1, <2>2 DEF Ahead
<1>9. NothingCut'
  <2> DEFINE S == Reach \union PathsOf(cached)
             T == S \union Matched'
  <2>1. ASSUME NoMoreThanLimits(T) PROVE DirectPaths \union Matched' \subseteq PathsOf(answer')
    <3>1. T \in SUBSET Paths /\ S \subseteq T /\ Matched' \subseteq T /\ PathsOf(answer) \subseteq S
      BY <1>1, <1>3 DEF PlanInv, Origin, Reach, AllowedPaths
    <3>s. S = Reach \union PathsOf(cached) \union Matched
      BY <1>1
    <3> HIDE DEF T, S
    <3>2. Cardinality(S) <= Cardinality(T) /\ Cardinality(S) \in Nat /\ Cardinality(T) \in Nat
      <4>1. IsFiniteSet(T) /\ Cardinality(T) \in Nat /\ S \in SUBSET Paths
        BY <3>1, PathsFinite
      <4> QED
        BY <3>1, <4>1, PathsFinite, FS_Subset
    <3>3. NoMoreThanLimits(S)
      BY <2>1, <3>2, LimitAssumption DEF NoMoreThanLimits
    <3>4. DirectPaths \subseteq PathsOf(answer)
      BY <1>0, <3>3, <3>s DEF PlanInv, NothingCut
    <3>5. PathsOf(answer) \union Matched' \subseteq PathsOf(answer')
      BY <1>4, <2>1, <3>1 DEF NoMoreThanLimits
    <3> QED
      BY <3>4, <3>5
  <2> QED
    BY <1>0, <1>2, <2>1 DEF PlanInv, NothingCut, NoMoreThanLimits, DirectPaths
<1> QED
  BY <1>5, <1>6, <1>7, <1>8, <1>9 DEF PlanInv

LEMMA PlanInvNext == PlanInv /\ [PlanNext]_planVars => PlanInv'
<1> SUFFICES ASSUME PlanInv, [PlanNext]_planVars PROVE PlanInv'
  OBVIOUS
<1>1. CASE FailToRead
  BY <1>1, SameLists DEF FailToRead
<1>2. CASE QueryFallback
  BY <1>2, FallbackStep
<1>3. CASE QueryCache
  BY <1>3, CacheStep
<1>4. CASE SearchExact
  BY <1>4, ExactStep
<1>5. CASE Stay \/ UNCHANGED planVars
  BY <1>5, SameLists DEF Stay, planVars
<1> QED
  BY <1>1, <1>2, <1>3, <1>4, <1>5 DEF PlanNext

LEMMA PlanInvImplies ==
    PlanInv => PlanTypeOK /\ BetterComesFirst /\ FiltersHold /\ CompleteBelowLimits
<1> SUFFICES ASSUME PlanInv PROVE PlanTypeOK /\ BetterComesFirst /\ FiltersHold /\ CompleteBelowLimits
  OBVIOUS
<1>1. Results(fallback) /\ Results(cached) /\ Results(answer)
  BY DEF PlanInv, PlanType
<1>2. PlanTypeOK
  <2>1. ASSUME NEW rows, Results(rows)
        PROVE  /\ Len(rows) <= Limit
               /\ \A i \in DOMAIN rows : rows[i].path \in Paths /\ rows[i].score \in Nat \ {0}
    BY <2>1, RowsAre DEF Results
  <2> QED
    BY <1>1, <2>1 DEF PlanTypeOK, PlanInv, PlanType, Given
<1>3. BetterComesFirst
  <2> SUFFICES ASSUME NEW p \in Paths, NEW q \in Paths, Dominates(p, q), q \in PathsOf(answer)
               PROVE  p \in PathsOf(answer) /\ Position(p) < Position(q)
    BY DEF BetterComesFirst
  <2>1. Ahead(answer, p, q)
    BY DEF PlanInv, InLead
  <2> QED
    BY <1>1, <2>1, FirstRankBefore DEF Results, Position
<1>4. FiltersHold
  BY DEF PlanInv, Origin, FiltersHold, Matched
<1>5. CompleteBelowLimits
  <2>1. PathsOf(cached) \subseteq Paths
    BY <1>1, RowsAre DEF Results
  <2>2. {p \in Paths : Direct(p) \/ Linked(p) \/ exact[p] > 0 \/ p \in PathsOf(cached)}
           = Reach \union PathsOf(cached) \union Matched
    BY <2>1 DEF Reach, Matched
  <2>3. {p \in Paths : Direct(p) \/ exact[p] > 0} = DirectPaths \union Matched
    BY DEF DirectPaths, Matched
  <2> QED
    BY <2>2, <2>3 DEF PlanInv, NothingCut, NoMoreThanLimits, CompleteBelowLimits
<1> QED
  BY <1>2, <1>3, <1>4, <1>5

LEMMA PlanInvariant == PlanSpec => []PlanInv
BY PlanInvInit, PlanInvNext, PTL DEF PlanSpec

(* A query's lists are within its limit and have scored paths only, for    *)
(* any map, plan and limits.                                               *)
THEOREM PlanTypeCorrect == PlanSpec => []PlanTypeOK
BY PlanInvariant, PlanInvImplies, PTL

(* No fusion, cut or filter turns the order of two paths around when one   *)
(* is the better in every channel (retrieval.go:33-37, 64, 79;             *)
(* query.go:515).                                                          *)
THEOREM BetterComesFirstAlways == PlanSpec => []BetterComesFirst
BY PlanInvariant, PlanInvImplies, PTL

(* What the plan excludes is in no answer, unless the exact search found   *)
(* it (query.go:329-335, fallback.go:376).                                 *)
THEOREM FiltersHoldAlways == PlanSpec => []FiltersHold
BY PlanInvariant, PlanInvImplies, PTL

(* Where nothing has to be cut, every path that matches is in the answer   *)
(* (query.go:329-333; retrieval.go:64).                                    *)
THEOREM CompleteBelowLimitsAlways == PlanSpec => []CompleteBelowLimits
BY PlanInvariant, PlanInvImplies, PTL

=============================================================================
