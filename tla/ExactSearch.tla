----------------------------- MODULE ExactSearch -----------------------------
(***************************************************************************)
(* SearchExact (internal/search/exact.go): one rg process per literal,     *)
(* one after the other, that share a number of results, a number of bytes  *)
(* and a deadline.  rg writes to a pipe that the search reads up to one    *)
(* byte past what is left of the bytes; the pipe is only closed when rg    *)
(* has ended, so rg can block on a pipe nobody reads any more until the    *)
(* deadline kills it.                                                      *)
(*                                                                         *)
(* A line of rg's output is a file and the number of the matching line in  *)
(* it; the bytes up to the match (path, line, column) are its header.  rg  *)
(* searches one path after the other, and the files of two that overlap    *)
(* twice: which path a line comes from is not printed, but kept here to    *)
(* tell the two apart.                                                     *)
(***************************************************************************)
EXTENDS Naturals, Sequences, FiniteSets

CONSTANTS
    Files,        \* the files of the repository
    N,            \* the literals are 1..N, in the order of the plan
    MaxLines,     \* bound on the lines of a file that match a literal
    HeaderBytes,  \* bytes of a line up to the match
    LineBytes,    \* bytes of a line
    PipeBytes,    \* what the pipe holds
    MaxResults,   \* the limits of the plan, as Normalize clamps them
    MaxBytes,
    Hints,        \* the path hints of the plan
    Covers,       \* the files under a hint
    Missing,      \* hints that name nothing
    Escaping,     \* hints that lead out of the repository
    Root          \* "."

ASSUME SizeAssumption ==
    /\ IsFiniteSet(Files)
    /\ N \in Nat
    /\ MaxLines \in Nat
    /\ HeaderBytes \in Nat \ {0}
    /\ LineBytes \in Nat /\ HeaderBytes < LineBytes      \* a line ends with a newline
    /\ PipeBytes \in Nat \ {0}
    /\ MaxResults \in Nat \ {0}
    /\ MaxBytes \in Nat \ {0}

(* Hints are spelled differently (cleanExactPathList), and may overlap. *)
ASSUME HintAssumption ==
    /\ IsFiniteSet(Hints) /\ Root \notin Hints
    /\ Missing \subseteq Hints /\ Escaping \subseteq Hints
    /\ Covers \in [Hints -> SUBSET Files]
    /\ \A h \in Missing \union Escaping : Covers[h] = {}

Literals == 1..N
Lines == [lit : Literals, path : Hints \union {Root}, file : Files, line : 1..MaxLines]

VARIABLES
    matches,      \* the repository: lines of each file that match each literal
    hints,        \* the hints of this plan
    pc,           \* where SearchExact is
    lit,          \* the next literal, or the one that is being searched for
    left,         \* remainingBytes
    results, truncated, \* the response
    failed,       \* ... and its diagnostics: the literals rg failed for,
    notes,        \*     "unavailable", "skipped" and "timed out"
    expired,      \* the deadline has passed
    rg,           \* "none", "writing", "exited", "failed" or "killed"
    output,       \* the lines this rg prints
    written, read \* how many bytes it has written, and the search has read

(* What the properties compare with: literals whose whole output was read  *)
(* from an rg that ended well, and all the bytes read from any rg.         *)
VARIABLES whole, consumed
history == <<whole, consumed>>

response == <<results, truncated, failed, notes>>
process == <<rg, output, written, read>>
vars == <<matches, hints, pc, lit, left, response, expired, process, history>>

TypeOK ==
    /\ matches \in [Literals -> [Files -> 0..MaxLines]]
    /\ hints \subseteq Hints
    /\ pc \in {"start", "loop", "reading", "waiting", "broken", "done"}
    /\ lit \in 1..(N + 1)
    /\ left \in 0..MaxBytes
    /\ results \in Seq(Lines)
    /\ truncated \in BOOLEAN
    /\ failed \subseteq Literals
    /\ notes \subseteq {"unavailable", "skipped", "timed out"}
    /\ expired \in BOOLEAN
    /\ rg \in {"none", "writing", "exited", "failed", "killed"}
    /\ output \in Seq(Lines)
    /\ written \in Nat
    /\ read \in Nat
    /\ whole \subseteq Literals
    /\ consumed \in Nat

Init ==
    /\ matches \in [Literals -> [Files -> 0..MaxLines]]
    /\ hints \in SUBSET Hints
    /\ pc = "start"
    /\ lit = 1
    /\ left = MaxBytes
    /\ results = <<>>
    /\ truncated = FALSE
    /\ failed = {}
    /\ notes = {}
    /\ expired = FALSE
    /\ rg = "none" /\ output = <<>> /\ written = 0 /\ read = 0
    /\ whole = {} /\ consumed = 0

-----------------------------------------------------------------------------
(* What rg prints. *)

(* A bug: hints that name nothing are dropped as well. *)
ExistingPaths ==
    IF hints \subseteq Escaping \union Missing THEN {Root} ELSE hints \ (Escaping \union Missing)

(* validatedSearchPaths drops the hints that escape and keeps those that   *)
(* name nothing; with none left the whole repository is searched.          *)
SearchPaths == IF hints \subseteq Escaping THEN {Root} ELSE hints \ Escaping

FilesUnder(p) == IF p = Root THEN Files ELSE Covers[p]

Least(a, b) == IF a <= b THEN a ELSE b

(* --max-count is per file that is searched, so twice where paths overlap. *)
Printed(maxResults) ==
    {l \in Lines : /\ l.lit = lit /\ l.path \in SearchPaths /\ l.file \in FilesUnder(l.path)
                   /\ l.line <= Least(matches[lit][l.file], maxResults)}

Searched(l) == <<l.path, l.file>>

(* The files come in any order, the lines of each together and in order. *)
Outputs(maxResults) ==
    LET lines == Printed(maxResults)
    IN {o \in [1..Cardinality(lines) -> lines] :
          \A i, j \in DOMAIN o : i < j /\ Searched(o[i]) = Searched(o[j]) =>
              o[i].line < o[j].line /\ \A k \in i..j : Searched(o[k]) = Searched(o[i])}

Bytes(lines) == LineBytes * Len(lines)

(* parseRGOutput: a line that is cut counts if its header is there. *)
ParseRGOutput(bytes) ==
    SubSeq(output, 1, Cardinality({i \in 1..Len(output) :
                                     LineBytes * (i - 1) + HeaderBytes <= bytes}))

-----------------------------------------------------------------------------
(* SearchExact. *)

Return == pc' = "done"

(* rg may not be installed; that is all the answer then says. *)
Start ==
    /\ pc = "start"
    /\ \/ Return /\ notes' = {"unavailable"}
       \/ /\ pc' = "loop"
          /\ notes' = IF hints \intersect Escaping = {} THEN {} ELSE {"skipped"}
    /\ UNCHANGED <<matches, hints, lit, left, results, truncated, failed, expired, process, history>>

(* A bug: the answer does not say that literals were left out. *)
StopUnnoticed ==
    /\ pc = "loop" /\ lit <= N
    /\ Len(results) >= MaxResults \/ left = 0
    /\ Return
    /\ UNCHANGED <<matches, hints, lit, left, response, expired, process, history>>

(* No results or no bytes are left for the literals to come. *)
StopAtLimit ==
    /\ pc = "loop" /\ lit <= N
    /\ Len(results) >= MaxResults \/ left = 0
    /\ truncated' = TRUE
    /\ Return
    /\ UNCHANGED <<matches, hints, lit, left, results, failed, notes, expired, process, history>>

AllSearched ==
    /\ pc = "loop" /\ lit = N + 1
    /\ Return
    /\ UNCHANGED <<matches, hints, lit, left, response, expired, process, history>>

CanSearch == pc = "loop" /\ lit <= N /\ Len(results) < MaxResults /\ left > 0

StartRG ==
    /\ CanSearch /\ ~expired
    /\ pc' = "reading"
    /\ rg' = "writing"
    /\ output' \in Outputs(MaxResults - Len(results))
    /\ written' = 0 /\ read' = 0
    /\ UNCHANGED <<matches, hints, lit, left, response, expired, history>>

(* An error of a literal: after the deadline it ends the search, before it *)
(* goes on with the next literal.                                          *)
Fail ==
    \/ /\ expired
       /\ notes' = notes \union {"timed out"} /\ truncated' = TRUE
       /\ Return
       /\ UNCHANGED <<failed, lit>>
    \/ /\ ~expired
       /\ failed' = failed \union {lit}
       /\ lit' = lit + 1 /\ pc' = "loop"
       /\ UNCHANGED <<notes, truncated>>

(* cmd.Start fails, in any case once the deadline has passed. *)
RGNotStarted ==
    /\ CanSearch
    /\ Fail
    /\ UNCHANGED <<matches, hints, left, results, expired, process, history>>

(* io.ReadAll over at most one byte more than is left. *)
Read ==
    /\ pc = "reading"
    /\ read < written /\ read <= left
    /\ read' = read + 1 /\ consumed' = consumed + 1
    /\ UNCHANGED <<matches, hints, pc, lit, left, response, expired, rg, output, written, whole>>

StopReading ==
    /\ pc = "reading"
    /\ read > left \/ (read = written /\ rg # "writing")
    /\ pc' = "waiting"
    /\ UNCHANGED <<matches, hints, lit, left, response, expired, process, history>>

(* io.ReadAll fails: rg is waited for all the same. *)
ReadFails ==
    /\ pc = "reading"
    /\ pc' = "broken"
    /\ UNCHANGED <<matches, hints, lit, left, response, expired, process, history>>

(* A bug: a literal that was cut off is not paid for. *)
PayInFull == left' = IF read > left THEN left ELSE left - read

(* cmd.Wait returns when rg has ended.  What was read is paid for, also by *)
(* a literal that failed.                                                  *)
Pay == left' = left - Least(read, left)

RGFailed ==
    /\ \/ pc = "waiting" /\ rg \in {"failed", "killed"}
       \/ pc = "broken" /\ rg # "writing"
    /\ Fail
    /\ Pay
    /\ rg' = "none"
    /\ UNCHANGED <<matches, hints, results, expired, output, written, read, history>>

TakeResults ==
    /\ pc = "waiting" /\ rg = "exited"
    /\ LET lines == ParseRGOutput(Least(read, left))
           room == MaxResults - Len(results)
       IN /\ results' = results \o SubSeq(lines, 1, Least(Len(lines), room))
          /\ truncated' = (truncated \/ read > left \/ Len(lines) > room)
          /\ whole' = IF read = Bytes(output) /\ Len(output) <= room
                      THEN whole \union {lit} ELSE whole
    /\ Pay
    /\ rg' = "none"
    /\ lit' = lit + 1 /\ pc' = "loop"
    /\ UNCHANGED <<matches, hints, failed, notes, expired, output, written, read, consumed>>

-----------------------------------------------------------------------------
(* rg and the clock. *)

(* rg writes while there is room in the pipe, and may be slow or hang. *)
RGWrites ==
    /\ rg = "writing"
    /\ written < Bytes(output) /\ written - read < PipeBytes
    /\ written' = written + 1
    /\ UNCHANGED <<matches, hints, pc, lit, left, response, expired, rg, output, read, history>>

(* rg may end with an error at any moment, for reasons of its own; it ends *)
(* well when all is written, unless one of its paths does not exist.       *)
RGEnds ==
    /\ rg = "writing"
    /\ \/ rg' = "failed"
       \/ written = Bytes(output) /\ SearchPaths \intersect Missing = {} /\ rg' = "exited"
    /\ UNCHANGED <<matches, hints, pc, lit, left, response, expired, output, written, read, history>>

Deadline ==
    /\ ~expired /\ pc \in {"loop", "reading", "waiting", "broken"}
    /\ expired' = TRUE
    /\ UNCHANGED <<matches, hints, pc, lit, left, response, process, history>>

(* A bug: rg is not run with the context of the search. *)
KillNone == FALSE /\ UNCHANGED vars

(* An rg that has ended well may be killed before the search waits for it, *)
(* and then counts as killed; if it found nothing, its exit code of 1      *)
(* comes first.                                                            *)
Kill ==
    /\ expired /\ (rg = "writing" \/ (rg = "exited" /\ output # <<>>))
    /\ rg' = "killed"
    /\ UNCHANGED <<matches, hints, pc, lit, left, response, expired, output, written, read, history>>

Search ==
    \/ Start \/ StopAtLimit \/ AllSearched \/ StartRG \/ RGNotStarted
    \/ Read \/ StopReading \/ ReadFails \/ RGFailed \/ TakeResults

Done == pc = "done" /\ UNCHANGED vars

Next == Search \/ RGWrites \/ RGEnds \/ Deadline \/ Kill \/ Done

Spec == Init /\ [][Next]_vars

(* The search runs, time passes, and the runtime kills what is too late.   *)
(* Nothing is assumed of rg.                                               *)
FairSpec == Spec /\ WF_vars(Search) /\ WF_vars(Deadline) /\ WF_vars(Kill)

-----------------------------------------------------------------------------
(* Properties. *)

(* However the literals share them, fail and are cut off, the limits hold: *)
(* no more results than max_results, and of what all the processes print   *)
(* no more than max_bytes and one byte is read (exact.go:78, 82, 155, 175).*)
WithinBudget == Len(results) <= MaxResults /\ consumed <= MaxBytes + 1

(* What the hints ask for: all files without a hint, or when every hint    *)
(* leads out of the repository (the answer then says so).                  *)
InScope(f) == hints \subseteq Escaping \/ \E h \in hints : f \in Covers[h]

(* Every result is a line that matches its literal, in a file that the     *)
(* hints ask for, whatever the byte limit cut off and however many hints   *)
(* name nothing.  One hint gives a line once; a file under two of them is  *)
(* there twice, since only hints spelled alike are dropped                 *)
(* (exact.go:65-68, 162, 182; model/exact_search.go:101-122).              *)
ResultsAreMatches ==
    /\ \A i \in 1..Len(results) :
         /\ InScope(results[i].file)
         /\ results[i].line <= matches[results[i].lit][results[i].file]
    /\ \A i, j \in 1..Len(results) : results[i] = results[j] => i = j

Represented(l) ==
    \A f \in Files : InScope(f) /\ matches[l][f] > 0 =>
        \E i \in 1..Len(results) : results[i].lit = l /\ results[i].file = f

(* No file is lost in silence: what a literal found in full is in the      *)
(* answer, also when later literals failed or the deadline passed; and an  *)
(* answer that says neither "truncated" nor of which literals rg failed    *)
(* has every file that matches (exact.go:78-96).                           *)
NoFileLostSilently ==
    /\ \A l \in whole : Represented(l)
    /\ pc = "done" /\ ~truncated /\ "unavailable" \notin notes =>
         \A l \in Literals \ failed : Represented(l)

(* The search returns, even from an rg that hangs, or that blocks on a     *)
(* pipe the search has stopped to read (exact.go:155-156).                 *)
SearchReturns == <>(pc = "done")
=============================================================================
