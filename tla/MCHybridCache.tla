---------------------------- MODULE MCHybridCache ----------------------------
(***************************************************************************)
(* An instance of HybridCache for TLC: r2 and r3 agree on their first two  *)
(* blocks, of which r2 generates the second; r1 only takes room.           *)
(***************************************************************************)
EXTENDS HybridCache, TLC

CONSTANTS r1, r2, r3

MCReq == {r1, r2, r3}
MCText == (r1 :> <<2, 2, 2, 2, 2, 2, 2, 2>>) @@ (r2 :> <<1, 1, 1, 1, 2, 2, 2, 2>>)
            @@ (r3 :> <<1, 1, 1, 1, 3, 3, 3, 3>>)
MCPromptLen == (r1 :> 2) @@ (r2 :> 3) @@ (r3 :> 6)
MCKeys == {Key(r, g, i) : r \in Req, g \in {"kv", "ssm"}, i \in 1 .. MaxLen \div BlockSize}
==============================================================================
