------------------------------ MODULE Manifest ------------------------------
(* The control actions of a manifest, run in two ways: by the interpreter of   *)
(* packages/playwright-adapter and by the TypeScript that packages/generator   *)
(* writes for the same manifest.  One machine with stacks of frames does both; *)
(* the rules look at mode where the two differ.  A promise that nobody waits   *)
(* for any more, such as the loser of a race, is a thread that goes on.        *)
(* No variable is declared with a default value, which only the interpreter    *)
(* finds in a condition, and the ids of actions differ as identifiers.         *)
EXTENDS Integers, Sequences, FiniteSets

LOCAL INSTANCE SequencesExt

CONSTANTS Program,   \* bound: the manifests, each a sequence of steps of actions
          FirstFails \* bound: the sets of leaf actions that fail, by their place in the run

(* An action.  n is its bound or its number of items; alt its elseChildren,    *)
(* defaultChildren or catch, fin its finally.  A switch asks for the variable  *)
(* x, and so do conditions: a while usually goes on until x is set.            *)
Action(type, n, body, alt, fin, branches) ==
  [type |-> type, cond |-> IF type = "while" THEN "unset" ELSE "set", n |-> n,
   body |-> body, alt |-> alt, fin |-> fin, branches |-> branches]

Leaf(type) == Action(type, 0, <<>>, <<>>, <<>>, <<>>)

Work    == {"web", "api", "custom"}
Jump    == {"break", "continue", "return"}
Counted == {"forEach", "for"}
Loop    == Counted \cup {"while"}
Fork    == {"parallel", "race", "timeout"}

Under(a) == <<a.body, a.alt, a.fin>> \o a.branches

(* The actions below a that are generated into one block: the cases of a       *)
(* switch share theirs.                                                        *)
Scopes(a) == IF a.type = "switch" THEN <<a.body \o a.alt>> ELSE Under(a)

(* Whether the block of these actions declares a whileAttempts.                *)
Whiles(actions) == {k \in DOMAIN actions : actions[k].type = "while"}

VARIABLES
  prog,     \* the manifest
  fails,    \* which of its leaf actions, counted as they are performed, fail
  mode,     \* "interpreted", then "generated", then "over"
  step,     \* the step under way
  thread,   \* thread 1 runs the step, the others are branches of it
  vars,     \* the variables that are set
  trace,    \* the leaf actions performed so far
  outcome,  \* what each mode has come to
  tries     \* history: control.try actions entered less those left

manifestVars == <<prog, fails, mode, step, thread, vars, trace, outcome, tries>>

Frame(kind, a, todo) == [kind |-> kind, action |-> a, todo |-> todo, n |-> 0, ran |-> 0,
                         saved |-> {}, pending |-> "none", kids |-> {}]

Block(actions)  == Frame("block", Leaf("none"), actions)
Thread(actions) == [stack |-> <<Block(actions)>>, signal |-> "none"]

(* Not every generated test is a program: break and continue need a loop of    *)
(* the same function, try a catch or a finally, and whileAttempts is declared  *)
(* once in a block.                                                            *)
RECURSIVE Compiles(_, _)
Compiles(actions, jumps) ==
  /\ Cardinality(Whiles(actions)) <= 1
  /\ \A k \in DOMAIN actions :
       LET a      == actions[k]
           inside == CASE a.type \in Loop \cup {"retry", "waitUntil"} -> {"break", "continue"}
                       [] a.type = "switch"                          -> jumps \cup {"break"}
                       [] a.type \in Fork \cup {"call"}              -> {}
                       [] OTHER                                      -> jumps
       IN /\ a.type \in {"break", "continue"} => a.type \in jumps
          /\ a.type = "try" => a.alt # <<>> \/ a.fin # <<>>
          /\ \A b \in DOMAIN Scopes(a) : Compiles(Scopes(a)[b], inside)

(* Only actions of a step itself are looked at, not the ones below them.       *)
RequiresBrowser == \E s \in DOMAIN prog : \E k \in DOMAIN prog[s] : prog[s][k].type = "web"

(* All steps are generated into the body of one function. *)
Runs(m) == m = "interpreted" \/ Compiles(FlattenSeq(prog), {})

NotRun == [verdict |-> "none", trace |-> <<>>]

Init ==
  /\ prog \in Program /\ fails \in FirstFails
  /\ mode = "interpreted" /\ step = 1
  /\ thread = <<Thread(prog[1])>>
  /\ vars = {} /\ trace = <<>> /\ tries = 0
  /\ outcome = [m \in {"interpreted", "generated"} |-> NotRun]

--------------------------------------------------------------------------------
(* Top of the stack of thread t, what is below it, and changes to them. *)
Top(t)  == Head(thread[t].stack)
Rest(t) == Tail(thread[t].stack)

Becomes(t, stack, signal) == thread' = [thread EXCEPT ![t] = [stack |-> stack, signal |-> signal]]

Push(t, frames, signal) == Becomes(t, frames \o Rest(t), signal)

(* Frame f of thread t runs actions and comes back. *)
RunBlock(t, f, actions) == Push(t, <<Block(actions), f>>, "none")

Interpreted == mode = "interpreted"

(* executeAction, but for its control cases: it waits for the browser, for an  *)
(* answer or for a custom action.                                              *)
LeafFails(a) == \/ Len(trace) + 1 \in fails
                \/ a.type = "web" /\ Interpreted /\ ~RequiresBrowser

(* conditionValue and the generated resolveCondition: ${var.x},                *)
(* ${var.x} === '', !${var.x}, ${var.x} === '1', ${var.x} > 0 and 0, where x   *)
(* is '1' when it is set.  Only the interpreter knows !, and compares texts;   *)
(* only the generated test knows >, and takes 1 and 0 for numbers, which are   *)
(* not '1' and not false.                                                      *)
Condition(cond) ==
  CASE cond = "set"     -> "x" \in vars
    [] cond = "unset"   -> "x" \notin vars
    [] cond = "not"     -> "x" \notin vars \/ ~Interpreted
    [] cond = "equal"   -> "x" \in vars /\ Interpreted
    [] cond = "greater" -> "x" \in vars \/ Interpreted
    [] cond = "zero"    -> ~Interpreted

Next1(t) == [Top(t) EXCEPT !.todo = Tail(@)]

Perform(t, a) ==
  /\ a.type \in Work
  /\ trace' = Append(trace, a.type)
  /\ Push(t, <<Next1(t)>>, IF LeafFails(a) THEN "error" ELSE "none")
  /\ UNCHANGED <<vars, tries>>

SetVariable(t, a) ==
  /\ a.type = "set"
  /\ vars' = vars \cup {"x"}
  /\ Push(t, <<Next1(t)>>, "none")
  /\ UNCHANGED <<trace, tries>>

Throw(t, a) ==
  /\ a.type \in Jump
  /\ Push(t, <<Next1(t)>>, a.type)
  /\ UNCHANGED <<vars, trace, tries>>

(* A switch catches the break statements of its cases, as generated.           *)
Branch(t, a) ==
  /\ a.type \in {"if", "switch"}
  /\ Push(t, <<Block(IF Condition(a.cond) THEN a.body ELSE a.alt)>>
               \o (IF a.type = "switch" /\ ~Interpreted THEN <<Frame("switch", a, <<>>)>> ELSE <<>>)
               \o <<Next1(t)>>, "none")
  /\ UNCHANGED <<vars, trace, tries>>

EnterLoop(t, a) ==
  /\ a.type \in Loop \cup {"retry", "waitUntil"}
  /\ Push(t, <<[Frame(a.type, a, <<>>) EXCEPT !.saved = vars \cap {"i"}], Next1(t)>>, "none")
  /\ UNCHANGED <<vars, trace, tries>>

EnterTry(t, a) ==
  /\ a.type = "try"
  /\ tries' = tries + 1
  /\ Push(t, <<Block(a.body), Frame("try", a, <<>>), Next1(t)>>, "none")
  /\ UNCHANGED <<vars, trace>>

(* The variables are copied before the argument y is assigned. *)
Call(t, a) ==
  /\ a.type = "call"
  /\ vars' = vars \cup {"y"}
  /\ Push(t, <<Block(a.body), [Frame("call", a, <<>>) EXCEPT !.saved = vars], Next1(t)>>, "none")
  /\ UNCHANGED <<trace, tries>>

ForkBranches(t, a) ==
  LET kids == (Len(thread) + 1) .. (Len(thread) + Len(a.branches))
      join == [Frame("join", a, <<>>) EXCEPT !.kids = kids]
  IN /\ a.type \in Fork
     /\ thread' = [thread EXCEPT ![t].stack = <<join, Next1(t)>> \o Rest(t)]
                    \o [b \in DOMAIN a.branches |-> Thread(a.branches[b])]
     /\ UNCHANGED <<vars, trace, tries>>

Execute(t) ==
  LET a == Head(Top(t).todo)
  IN /\ Top(t).kind = "block" /\ Top(t).todo # <<>> /\ thread[t].signal = "none"
     /\ \/ Perform(t, a) \/ SetVariable(t, a) \/ Throw(t, a) \/ Branch(t, a)
        \/ EnterLoop(t, a) \/ EnterTry(t, a) \/ Call(t, a) \/ ForkBranches(t, a)

--------------------------------------------------------------------------------
(* What a frame does when the actions above it have ended with the signal s.   *)

LeaveBlock(t, s) ==
  /\ Top(t).kind = "block"
  /\ Top(t).todo = <<>> \/ s # "none"
  /\ Push(t, <<>>, s)
  /\ UNCHANGED <<vars, trace, tries>>

LeaveSwitch(t, s) ==
  /\ Top(t).kind = "switch"
  /\ Push(t, <<>>, IF s = "break" THEN "none" ELSE s)
  /\ UNCHANGED <<vars, trace, tries>>

(* The variable of a loop gets its former value back, but not when generated.  *)
LeaveLoop(t, s) ==
  /\ vars' = IF Top(t).kind \in Counted /\ Interpreted THEN (vars \ {"i"}) \cup Top(t).saved ELSE vars
  /\ Push(t, <<>>, IF s \in {"break", "continue"} THEN "none" ELSE s)

(* ran counts to one more than the bound, which is enough to see it broken. *)
Another(f) == [f EXCEPT !.n = @ + 1, !.ran = IF @ > f.action.n THEN @ ELSE @ + 1]

(* whileAttempts is incremented at the end of the generated body: continue     *)
(* passes over it, and after a while of the body it is that one's counter.     *)
Iterations(f, s) ==
  CASE Interpreted \/ f.kind # "while" -> f.n
    [] Whiles(f.action.body) # {}      -> 0
    [] s = "continue"                  -> f.n - 1
    [] OTHER                           -> f.n

Iterate(t, s) ==
  LET f  == Top(t)
      n  == Iterations(f, s)
      on == s \in {"none", "continue"} /\ n < f.action.n
            /\ (f.kind = "while" => Condition(f.action.cond))
  IN /\ f.kind \in Loop
     /\ IF on THEN /\ vars' = IF f.kind \in Counted THEN vars \cup {"i"} ELSE vars
                   /\ RunBlock(t, Another([f EXCEPT !.n = n]), f.action.body)
              ELSE LeaveLoop(t, s)
     /\ UNCHANGED <<trace, tries>>

(* Mutant: the first attempt is not counted. *)
RetryOnceMore(t, s) ==
  /\ Top(t).kind = "retry"
  /\ IF s = "error" /\ Top(t).n <= Top(t).action.n
       THEN RunBlock(t, Another(Top(t)), Top(t).action.body)
       ELSE IF Top(t).ran = 0 THEN RunBlock(t, Another(Top(t)), Top(t).action.body) ELSE Push(t, <<>>, s)
  /\ UNCHANGED <<vars, trace, tries>>

(* The interpreter returns after the first attempt that succeeds and throws    *)
(* signals on; the generated loop has no break after its children, and jumps   *)
(* in them are jumps of that loop.                                             *)
Retry(t, s) ==
  LET f     == Top(t)
      again == /\ f.n < f.action.n
               /\ \/ s = "error" \/ f.ran = 0
                  \/ ~Interpreted /\ s \in {"none", "continue"}
      out   == IF ~Interpreted /\ s \in {"break", "continue"} THEN "none" ELSE s
  IN /\ f.kind = "retry"
     /\ IF again THEN RunBlock(t, Another(f), f.action.body) ELSE Push(t, <<>>, out)
     /\ UNCHANGED <<vars, trace, tries>>

(* Generated, a condition that is never met is no error. *)
WaitUntil(t, s) ==
  LET f     == Top(t)
      met   == Condition(f.action.cond)
      goes  == s = "none" \/ (~Interpreted /\ s = "continue")
      out   == CASE ~goes -> IF ~Interpreted /\ s = "break" THEN "none" ELSE s
                 [] goes /\ Interpreted /\ ~met -> "error"
                 [] OTHER -> "none"
  IN /\ f.kind = "waitUntil"
     /\ IF goes /\ ~met /\ f.n < f.action.n THEN RunBlock(t, Another(f), f.action.body)
                                            ELSE Push(t, <<>>, out)
     /\ UNCHANGED <<vars, trace, tries>>

(* Mutant: the finally is left out when nothing catches. *)
TryWithoutFinally(t, s) ==
  /\ Top(t).kind = "try"
  /\ Push(t, IF s = "none" THEN <<Block(Top(t).action.fin), [Top(t) EXCEPT !.kind = "finally"]>> ELSE <<>>, s)
  /\ UNCHANGED <<vars, trace, tries>>

(* The catch of the interpreter also takes the signals of break, continue and  *)
(* return, which are exceptions there.                                         *)
Try(t, s) ==
  LET f      == Top(t)
      caught == f.kind = "try" /\ f.action.alt # <<>>
                /\ (IF Interpreted THEN s # "none" ELSE s = "error")
  IN /\ f.kind \in {"try", "catch"}
     /\ Push(t, IF caught
                THEN <<Block(f.action.alt), [f EXCEPT !.kind = "catch"]>>
                ELSE <<Block(f.action.fin), [f EXCEPT !.kind = "finally", !.pending = s]>>, "none")
     /\ UNCHANGED <<vars, trace, tries>>

Finally(t, s) ==
  /\ Top(t).kind = "finally"
  /\ Push(t, <<>>, IF s = "none" THEN Top(t).pending ELSE s)
  /\ tries' = tries - 1
  /\ UNCHANGED <<vars, trace>>

(* Mutant: a generated call keeps the variables that its function has set. *)
LeaveCallKeeps(t, s) ==
  /\ Top(t).kind = "call"
  /\ vars' = IF Interpreted THEN Top(t).saved ELSE vars
  /\ Push(t, <<>>, IF s = "return" /\ ~Interpreted THEN "none" ELSE s)
  /\ UNCHANGED <<trace, tries>>

(* All variables are what they were before the call, whoever has set them. *)
LeaveCall(t, s) ==
  /\ Top(t).kind = "call"
  /\ vars' = Top(t).saved
  /\ Push(t, <<>>, IF s = "return" /\ ~Interpreted THEN "none" ELSE s)
  /\ UNCHANGED <<trace, tries>>

Settled(k)  == thread[k].stack = <<>>
(* Mutant: what a branch throws is lost. *)
ResultLost(k) == "none"

(* return in an async arrow function ends that function only. *)
Result(k)   == IF thread[k].signal = "return" /\ ~Interpreted THEN "none" ELSE thread[k].signal

(* Mutant: a parallel goes on with the first branch that settles. *)
JoinFirst(t) ==
  /\ Top(t).kind = "join"
  /\ \E k \in Top(t).kids : Settled(k) /\ Push(t, <<>>, Result(k))
  /\ UNCHANGED <<vars, trace, tries>>

(* Promise.all rejects with the first branch that does, Promise.race settles   *)
(* with the first.  The branches that are left go on.                          *)
Join(t) ==
  LET f == Top(t)
      settled == {k \in f.kids : Settled(k)}
  IN /\ f.kind = "join"
     /\ \/ \E k \in settled : /\ f.action.type # "parallel" \/ Result(k) # "none"
                              /\ Push(t, <<>>, Result(k))
        \/ /\ f.action.type = "parallel" /\ \A k \in f.kids : Settled(k) /\ Result(k) = "none"
           /\ Push(t, <<>>, "none")
     /\ UNCHANGED <<vars, trace, tries>>

TimerFires(t) ==
  /\ Top(t).kind = "join" /\ Top(t).action.type = "timeout"
  /\ \A k \in Top(t).kids : ~Settled(k)
  /\ Push(t, <<>>, "error")
  /\ UNCHANGED <<vars, trace, tries>>

Resume(t) ==
  LET s == thread[t].signal
  IN \/ LeaveBlock(t, s) \/ LeaveSwitch(t, s) \/ Iterate(t, s) \/ Retry(t, s) \/ WaitUntil(t, s)
     \/ Try(t, s) \/ Finally(t, s) \/ LeaveCall(t, s) \/ Join(t) \/ TimerFires(t)

Advance(t) ==
  /\ mode # "over" /\ ~Settled(t)
  /\ Execute(t) \/ Resume(t)
  /\ UNCHANGED <<prog, fails, mode, step, outcome>>

--------------------------------------------------------------------------------
(* Any exception, also a signal, fails the step it leaves and ends the run;    *)
(* generated, return ends the test there, which then has passed.               *)
Verdict == CASE Interpreted /\ thread[1].signal # "none" -> "failed"
             [] ~Interpreted /\ thread[1].signal = "error" -> "failed"
             [] OTHER -> "passed"

LastStep == step = Len(prog) \/ thread[1].signal # "none"

NextStep ==
  /\ mode # "over" /\ Settled(1) /\ ~LastStep
  /\ step' = step + 1
  /\ thread' = [thread EXCEPT ![1] = Thread(prog[step + 1])]
  /\ UNCHANGED <<prog, fails, mode, vars, trace, outcome, tries>>

(* The process ends, and with it what still runs in it. *)
EndRun ==
  /\ mode # "over" /\ Settled(1) /\ LastStep
  /\ outcome' = [outcome EXCEPT ![mode] = [verdict |-> Verdict, trace |-> trace]]
  /\ mode' = IF Interpreted /\ Runs("generated") THEN "generated" ELSE "over"
  /\ step' = 1 /\ thread' = <<Thread(prog[1])>>
  /\ vars' = {} /\ trace' = <<>> /\ tries' = 0
  /\ UNCHANGED <<prog, fails>>

Next == NextStep \/ EndRun \/ \E t \in DOMAIN thread : Advance(t)

Spec == Init /\ [][Next]_manifestVars

--------------------------------------------------------------------------------
RECURSIVE Holds(_, _)
Holds(actions, types) ==
  \E k \in DOMAIN actions :
    \/ actions[k].type \in types
    \/ \E b \in DOMAIN Under(actions[k]) : Holds(Under(actions[k])[b], types)

Has(types) == \E s \in DOMAIN prog : Holds(prog[s], types)

(* What lets a step pass while a branch of it still runs. *)
LeavesBranches ==
  Has({"race", "timeout"}) \/ (Has({"parallel"}) /\ Has({"try", "retry"} \cup Loop))

(* A step that has passed is over: none of its actions still runs while the    *)
(* next step does, unless it holds a race or a timeout, or a parallel with a   *)
(* failure or a jump that a try, a retry or a loop caught.                     *)
StepsDontOverlap ==
  (mode # "over" /\ ~LeavesBranches /\ Settled(1) /\ thread[1].signal = "none")
  => \A t \in DOMAIN thread : Settled(t)

(* A step leaves what it has entered, whatever leaves it, an error, a jump out *)
(* of a loop around it, or its end: each try through its finally, and each     *)
(* loop and call with the variables of before, so that the loop's variable and *)
(* the function's argument, which only they set, are gone after the step.      *)
StepsLeaveInOrder ==
  Settled(1) /\ ~Has(Fork) =>
    /\ tries = 0
    /\ mode = "interpreted" => vars \cap {"i", "y"} = {}

(* No run passes in which an action failed, when there is no retry and no try  *)
(* to recover from it and no branch that is left behind.                       *)
FailureIsReported ==
  \A m \in DOMAIN outcome :
    (outcome[m].verdict = "passed" /\ ~Has({"retry", "try"}) /\ ~LeavesBranches)
    => \A k \in DOMAIN outcome[m].trace : k \notin fails

(* Whether generated actions continue the loop that they are the body of.      *)
RECURSIVE Continues(_)
Continues(actions) ==
  \E k \in DOMAIN actions :
    LET a == actions[k]
    IN \/ a.type = "continue"
       \/ /\ a.type \notin Loop \cup {"retry", "waitUntil"}
          /\ \E b \in DOMAIN Under(a) : Continues(Under(a)[b])

(* src/docs/MANIFEST_DSL_SPEC.md:5 "Bounds are mandatory for loops and         *)
(* retries": neither the interpreter nor the generated test runs the children  *)
(* of one more often than its bound, but for a generated while that a continue *)
(* in it continues, or that has a while among its children: it goes on for as  *)
(* long as its condition holds.                                                *)
BoundsHold ==
  \A t \in DOMAIN thread : \A k \in DOMAIN thread[t].stack :
    LET f == thread[t].stack[k]
    IN \/ f.ran <= f.action.n
       \/ /\ mode = "generated" /\ f.kind = "while"
          /\ Continues(f.action.body) \/ Whiles(f.action.body) # {}

(* Manifests in which the two do not differ: without return and waitUntil,     *)
(* retried actions and branches; with jumps only out of loops, not out of a    *)
(* switch, a retry or a caught try, and no continue in while; with no while    *)
(* among the children of a while; with conditions on whether x is set only;    *)
(* with a browser action in a step itself if there is one deeper.              *)
RECURSIVE Portable(_, _)
Portable(actions, jumps) ==
  \A k \in DOMAIN actions :
    LET a == actions[k]
        inside == CASE a.type \in Counted -> {"break", "continue"}
                    [] a.type = "while"   -> {"break"}
                    [] a.type = "switch"  -> jumps \ {"break"}
                    [] a.type \in {"retry", "call"} -> {}
                    [] a.type = "try" /\ a.alt # <<>> -> {}
                    [] OTHER -> jumps
    IN /\ a.type \notin Fork \cup {"return", "waitUntil"}
       /\ a.cond \in {"set", "unset"}
       /\ a.type = "retry" => a.n = 1
       /\ a.type = "while" => Whiles(a.body) = {}
       /\ a.type \in Jump => a.type \in jumps
       /\ \A b \in DOMAIN Under(a) : Portable(Under(a)[b], inside)

(* For such a manifest that compiles, the generated test performs the same     *)
(* actions as the interpreter, in the same order, and comes to its verdict.    *)
GeneratedAgrees ==
  /\ mode = "over" /\ outcome["generated"] # NotRun
  /\ \A s \in DOMAIN prog : Portable(prog[s], {})
  /\ Has({"web"}) => RequiresBrowser
  => outcome["generated"] = outcome["interpreted"]

=============================================================================
