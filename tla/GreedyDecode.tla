---------------------------- MODULE GreedyDecode ----------------------------
(***************************************************************************)
(* What Generator::generate promises its caller, whatever the lookahead:   *)
(* token after token, each computed from all the tokens before it, until   *)
(* EOS, max_new_tokens or the first failure.  There is no pipeline here.   *)
(*                                                                         *)
(* A call is described by what will happen to it: see Generator's plan.    *)
(* Tokens are named by their place in the sequence, so the prompt is       *)
(* 1..prompt; a forward that starts at position s computes token s + 2 if  *)
(* it is a decode step, and the first token needs all the forwards below   *)
(* the prompt's length.                                                    *)
(***************************************************************************)
EXTENDS Integers, Sequences

CONSTANTS Plans,   \* the calls a client may make
          NoCall,  \* the plan when there is no call
          Error    \* the item that stands for Some(Err(_)), or a refused call

VARIABLES plan, items, over

vars == <<plan, items, over>>

Init == plan = NoCall /\ items = <<>> /\ over = FALSE

\* The item after n tokens: the token, unless a forward it needs fails.
Item(p, n) == LET t == p.prompt + n + 1
              IN  IF \E s \in {p.host, p.gpu} : s + 2 <= t THEN Error ELSE t

Begin == /\ plan = NoCall
         /\ plan' \in Plans
         /\ \/ items' = <<>> /\ over' = FALSE
            \/ plan'.oom /\ items' = <<Error>> /\ over' = TRUE

Yield == /\ plan # NoCall /\ ~over
         /\ LET i == Item(plan, Len(items)) IN
              /\ items' = Append(items, i)
              /\ over' = (i \in {Error, plan.eos} \/ Len(items) + 1 = plan.new)
         /\ UNCHANGED plan

\* The caller is through with the call, or gives it up.
End == plan # NoCall /\ plan' = NoCall /\ items' = <<>> /\ over' = FALSE

Next == Begin \/ Yield \/ End

Spec == Init /\ [][Next]_vars
=============================================================================
