------------------------------ MODULE MCLedger ------------------------------
(* A block a1 and a heavier branch b1-b2 from genesis, which share actions: *)
(* p is admitted by genesis and q by p, and note is p's.  The hash prefers  *)
(* b1 to a1, the number of actions a1 to b1.                                *)
EXTENDS Ledger, TLC

CONSTANTS g, a1, b1, b2, none

Tree == (g :> none) @@ (a1 :> g) @@ (b1 :> g) @@ (b2 :> b1)
Tall == (g :> 0) @@ (a1 :> 1) @@ (b1 :> 1) @@ (b2 :> 2)
Order == (g :> 0) @@ (a1 :> 2) @@ (b1 :> 1) @@ (b2 :> 3)
Paths == (g :> (0 :> g)) @@ (a1 :> (0 :> g @@ 1 :> a1)) @@ (b1 :> (0 :> g @@ 1 :> b1))
         @@ (b2 :> (0 :> g @@ 1 :> b1 @@ 2 :> b2))
Content == (g :> << >>) @@ (a1 :> <<"note", "admit_p">>)
           @@ (b1 :> <<"admit_p">>) @@ (b2 :> <<"admit_q", "note">>)
Signer == ("admit_p" :> "root") @@ ("note" :> "p") @@ ("admit_q" :> "p")
Admits == ("admit_p" :> "p") @@ ("admit_q" :> "q")
=============================================================================
