------------------------ MODULE MCFullAttentionCache ------------------------
(***************************************************************************)
(* Instances of FullAttentionCache for TLC.  Text is a table of block      *)
(* contents; the hash of a block is the sequence of contents up to it.     *)
(* The radix index is compared with the flat one on every history of a few *)
(* inserts and pops, hashes sharing a bucket and blocks sharing a hash;    *)
(* the hashes come from the token store, which is followed through all     *)
(* histories of two requests in two slots, up to six tokens each, blocks   *)
(* of two.                                                                 *)
(***************************************************************************)
EXTENDS FullAttentionCache, RadixIndex, TLC

CONSTANTS r1, r2

\* Two requests that share the first block of their text.
Text == (r1 :> <<"a", "b", "c", "d">>) @@ (r2 :> <<"a", "x", "y", "z">>)
MCReq2 == {r1, r2}

HashOf(r, i) == SubSeq(Text[r], 1, i)
MCKeys == {HashOf(r, i) : r \in Req, i \in 1 .. MaxBlocks}
MCBlockHash == [r \in Req |-> [i \in 1 .. MaxBlocks |-> HashOf(r, i)]]
Prompt == (r1 :> 3) @@ (r2 :> 2)
MCPromptLen == [r \in Req |-> Prompt[r]]

\* Keep is the library's SelectSeq.
ASSUME KeepIsSelectSeq ==
  \A n \in 0 .. 4 : \A s \in [1 .. n -> 1 .. 3] : \A S \in SUBSET (1 .. 3) :
    Keep(s, S) = SelectSeq(s, LAMBDA x : x \in S)

MCBuckets == {0, 1}
MCBucketOf == [k \in Keys |-> Len(k) % 2]

\* Both indexes after every history of at most n calls.
Histories[n \in Nat] ==
  IF n = 0 THEN {<<RadixNew, FlatNew>>}
  ELSE Histories[n - 1] \cup
       UNION {{<<RadixInsert(h[1], k, b), FlatInsert(h[2], k, b)>>,
               <<RadixPop(h[1], k, b), FlatPop(h[2], k, b)>>} :
                h \in Histories[n - 1], k \in {<<"a">>, <<"a", "b">>, <<"a", "b", "c">>},
                b \in {1, 2}}

\* Whatever was inserted and popped, the radix index answers as the flat one,
\* and its snapshots restore it.
ASSUME RadixIsFlat ==
  \A h \in Histories[5] :
    LET x == h[1]  f == h[2]
    IN  /\ StandsFor(x, f)
        /\ \A k \in Keys : RadixGet(x, k) = FlatGet(f, k)
        /\ \A k \in Keys : \A b \in {1, 2} :
             /\ Restore(RadixInsert(x, k, b), k, Snapshot(x, k)) = x
             /\ Restore(RadixPop(x, k, b), k, Snapshot(x, k)) = x
             /\ FlatPop(f, k, b)[k] = Drop(f[k], {b})

Store == INSTANCE TokenStore
           WITH Requests <- {1, 2}, Slots <- {3, 4}, NoSlot <- 0, Tokens <- 1 .. 20, HashBlockSize <- 2

\* Tokens tell request and place apart; a request has at most six.
NextTokens(s, r, n) == [i \in 1 .. n |-> 10 * (r - 1) + Len(s.text[r]) + i]
Accepted(s) ==
  {a \in [{1, 2} -> UNION {{NextTokens(s, r, n) : n \in 1 .. 2} : r \in {1, 2}}] :
     \A r \in {1, 2} : a[r] \in {NextTokens(s, r, n) : n \in 1 .. 2}}

AfterACall(s) ==
  LET here == {1, 2} \ s.gone
      slotted == {r \in here : s.slot[r] # 0}
      short == {r \in slotted : Len(s.text[r]) < 5}
      batches == {b \in {<<1>>, <<2>>, <<1, 2>>} : \A i \in DOMAIN b : b[i] \in short}
  IN  {Store!SlotOf(s, r, k) : r \in here, k \in {3, 4} \ Store!Interned(s)}
        \cup {Store!StoreStep(s, b, a, packs) : b \in batches, a \in Accepted(s), packs \in BOOLEAN}
        \cup {Store!Materialize(s, r) : r \in slotted}
        \cup {Store!Drop(s, r) : r \in slotted}

StoreStates[n \in Nat] ==
  IF n = 0 THEN {Store!Arrived([r \in {1, 2} |-> IF r = 1 THEN <<1>> ELSE <<11, 12, 13>>])}
  ELSE LET before == StoreStates[n - 1]
       IN  before \cup UNION {AfterACall(s) : s \in before}

\* Whoever keeps the tokens of a request, none is lost, and its hashes are
\* those of its whole text, also for the next request in the same slot.
ASSUME StoreIsSound ==
  /\ Store!StoreConstants
  /\ \A s \in StoreStates[9] : Store!IsState(s) /\ Store!Sound(s)
  /\ \E s \in StoreStates[9] : s.facade = {1, 2}
=============================================================================
