------------------------------ MODULE RangeLoop ------------------------------
(***************************************************************************)
(* The counter of "for i in range(start, stop, step)" (gen_for_range of    *)
(* compiler/codegen_x86.py): its type is that of an argument, so it has    *)
(* that width and chooses the form of the compare.  The body leaves the    *)
(* counter and the arguments alone.                                        *)
(***************************************************************************)
EXTENDS Values

CONSTANTS
    Steps,          \* steps that occur
    MaxTurns        \* bound on the turns of a loop

ASSUME StepsAssumption == Steps \subseteq Int \ {0} /\ MaxTurns \in Nat

VARIABLES
    start, stop,    \* the arguments: what get_expr_type finds, and a value
    step,           \* the step, and whether it is a literal
    counter,        \* the word of the loop variable
    at,             \* start, test, body, step, end
    seen            \* what the body found in the loop variable

loopVars == <<start, stop, step, counter, at, seen>>

-----------------------------------------------------------------------------
Argument == [type : IntTypes \cup {Untyped}, value : SignedWords \cup UnsignedWords]

LoopInit ==
    /\ start \in Argument /\ (Known(start.type) => start.value \in Holds(start.type))
    /\ stop \in Argument /\ (Known(stop.type) => stop.value \in Holds(stop.type))
    /\ step \in [value : Steps, literal : BOOLEAN]
    /\ counter = 0 /\ at = "start" /\ seen = <<>>

TypeOr(default) == IF Known(start.type) THEN start.type
                   ELSE IF Known(stop.type) THEN stop.type
                   ELSE default
Int64 == [bits |-> WordBits, signed |-> TRUE]
\* A slip: without a type it is an int.
LoopTypeInt == TypeOr([bits |-> NarrowBits, signed |-> TRUE])
LoopType == TypeOr(Int64)

\* _const_int_value sees literals and negated literals; any other step is
\* taken to be positive.
Descending == step.literal /\ step.value < 0

Assign(n) == counter' = StoreSized(LoopType, counter, Word(n))
Loaded == LoadLocal(LoopType, counter)

Start == /\ at = "start"
         /\ Assign(start.value) /\ at' = "test"
         /\ UNCHANGED <<start, stop, step, seen>>

Test == /\ at = "test"
        /\ LET signed == RelSigned(LoopType, stop.type)
               i == Number(WordBits, signed, Loaded)
               limit == Number(WordBits, signed, Word(stop.value))
           IN  at' = IF (IF Descending THEN i > limit ELSE i < limit) THEN "body" ELSE "end"
        /\ UNCHANGED <<start, stop, step, counter, seen>>

Turn == /\ at = "body" /\ Len(seen) < MaxTurns
        /\ seen' = Append(seen, Wrapped(LoopType, Loaded)) /\ at' = "step"
        /\ UNCHANGED <<start, stop, step, counter>>

Step == /\ at = "step"
        /\ Assign(Loaded + Word(step.value)) /\ at' = "test"
        /\ UNCHANGED <<start, stop, step, seen>>

Loop == Start \/ Test \/ Turn \/ Step

\* Either an expression is evaluated or a loop is run.
NoVar == [type |-> Untyped, home |-> "cell", word |-> 0, means |-> 0, good |-> 0]
RunInit == \/ Init /\ start = 0 /\ stop = 0 /\ step = 0 /\ counter = 0 /\ at = "none" /\ seen = <<>>
           \/ LoopInit /\ var = NoVar /\ stack = <<>> /\ nodes = 0 /\ outcome = "none"
RunNext == \/ Eval /\ UNCHANGED loopVars
           \/ Loop /\ UNCHANGED vars
RunSpec == RunInit /\ [][RunNext]_<<vars, loopVars>>

-----------------------------------------------------------------------------
(***************************************************************************)
(* "1, 2 or 3 args, matching Python" (LANGUAGE.md, line 419), as long as   *)
(* the limit and every value the counter takes, the one that ends the loop *)
(* included, fit the types found for the arguments, and a step that is not *)
(* a literal is positive.                                                  *)
(***************************************************************************)
Before(n) == IF step.value > 0 THEN n < stop.value ELSE n > stop.value
Turns == CHOOSE k \in 0 .. 2^(WordBits + 1) :
            /\ ~ Before(start.value + k * step.value)
            /\ \A j \in 0 .. k - 1 : Before(start.value + j * step.value)
PythonRange == [k \in 1 .. Turns |-> start.value + (k - 1) * step.value]

Taken == {start.value + k * step.value : k \in 0 .. Turns}
ArgTypes == {start.type, stop.type} \ {Untyped}
Fits == /\ \A t \in IF ArgTypes = {} THEN {Int64} ELSE ArgTypes :
              Taken \cup {stop.value} \subseteq Holds(t)
        /\ step.literal \/ step.value > 0

RangeMatchesPython ==
    at # "none" /\ Fits => /\ seen = SubSeq(PythonRange, 1, Len(seen))
                           /\ Len(seen) <= Turns
                           /\ at = "end" => seen = PythonRange
==============================================================================
