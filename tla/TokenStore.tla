----------------------------- MODULE TokenStore -----------------------------
(***************************************************************************)
(* Who keeps the tokens and block hashes of a request: Python's lists, or  *)
(* (port 2) the crate's token store, which Python's count-only facade then *)
(* stands in front of.  Operators from a state to a state, no variables.   *)
(* They are tokens.rs, the slot registry of manager.rs (intern, forget),   *)
(* RustMirror, tok_store_init, tok_materialize of rust_sched.py.           *)
(*                                                                         *)
(* A state s has, of a request r,                                          *)
(*   text[r]      auxiliary: its prompt and every token accepted for it    *)
(*   list[r]      Request._all_token_ids                                   *)
(*   chain[r]     Request.block_hashes                                     *)
(*   facade       the requests with the facade class on, count[r] being    *)
(*                the num_tokens it shows                                  *)
(*   off          those with _vtl_tok_off                                  *)
(*   slot[r]      the interned slot, the same in the crate and the mirror  *)
(*   gone         those whose slot was dropped                             *)
(* and of a slot k                                                         *)
(*   pushed[k]    RustMirror._pushed                                       *)
(*   hashes[k]    ReqState::hashes                                         *)
(*   out[k], pending[k]   SlotTokens, while its request is store-owned     *)
(*                                                                         *)
(* A block hash stands for the text up to the end of its block: hash.rs    *)
(* digests the parent and the tokens of the block.                         *)
(***************************************************************************)
EXTENDS Integers, SequencesExt

CONSTANTS Requests, Slots, NoSlot,
          Tokens,
          HashBlockSize

StoreConstants == HashBlockSize \in Nat \ {0} /\ NoSlot \notin Slots

Prefix(t, n) == SubSeq(t, 1, n)
From(t, n) == SubSeq(t, n, Len(t))

\* hash_block_tokens: the parent is absent for the first block.
HashTokens(parents, tokens) ==
  IF parents = << >> THEN tokens ELSE parents[Len(parents)] \o tokens

\* get_request_block_hasher on the whole text.
Chain(t) == [i \in 1 .. Len(t) \div HashBlockSize |-> Prefix(t, i * HashBlockSize)]

------------------------------------------------------------------------------
(* tokens.rs                                                               *)

\* TokenStore::append, one token of it: st is [out, pending, hashes].
PushToken(st, token) ==
  LET tail == Append(st.pending, token)
      full == Len(tail) = HashBlockSize
  IN  [out     |-> Append(st.out, token),
       pending |-> IF full THEN << >> ELSE tail,
       hashes  |-> IF full THEN Append(st.hashes, HashTokens(st.hashes, tail)) ELSE st.hashes]

StoreOf(s, k) == [out |-> s.out[k], pending |-> s.pending[k], hashes |-> s.hashes[k]]

\* store_apply for one request, and the bump of the facade's counter.
PackToken(s, r, token) ==
  LET k  == s.slot[r]
      st == PushToken(StoreOf(s, k), token)
  IN  [s EXCEPT !.text[r] = Append(@, token), !.count[r] = @ + 1,
                !.out[k] = st.out, !.pending[k] = st.pending, !.hashes[k] = st.hashes]

------------------------------------------------------------------------------
(* rust_sched.py                                                           *)

Interned(s) == {s.slot[r] : r \in Requests} \ {NoSlot}

\* RustMirror.slot: interned on first sight (k, a slot nobody has), then told
\* the hashes it has not got.
SlotOf(s, r, k) ==
  LET new  == s.slot[r] = NoSlot
      at   == IF new THEN k ELSE s.slot[r]
      have == IF new THEN Len(s.hashes[at]) ELSE s.pushed[at]
  IN  [s EXCEPT !.slot[r] = at,
                !.hashes[at] = IF Len(s.chain[r]) > have
                               THEN @ \o From(s.chain[r], have + 1) ELSE @,
                !.pushed[at] = IF Len(s.chain[r]) > have THEN Len(s.chain[r]) ELSE have]

\* tok_store_init: the seed is the text past the last block hashed.
Hashed(s, r) == Len(s.chain[r]) * HashBlockSize
SeedFits(s, r) == Len(s.list[r]) - Hashed(s, r) \in 0 .. HashBlockSize - 1

\* store_take_over of a request that has a slot.
TakeOver(s, r) ==
  IF r \in s.facade \/ r \in s.off THEN s
  ELSE IF ~ SeedFits(s, r) THEN [s EXCEPT !.off = @ \cup {r}]
  ELSE LET k == s.slot[r]
       IN  [s EXCEPT !.facade = @ \cup {r},
                     !.count[r] = Len(s.list[r]),
                     !.out[k] = << >>,
                     !.pending[k] = From(s.list[r], Hashed(s, r) + 1)]

\* tok_materialize: the lists get the tokens the store appended, the mirror
\* learns that the crate has the whole chain, and the request stays stock.
Materialize(s, r) ==
  IF r \notin s.facade THEN s
  ELSE LET k == s.slot[r]
       IN  [s EXCEPT !.facade = @ \ {r},
                     !.off = @ \cup {r},
                     !.list[r] = @ \o s.out[k],
                     !.chain[r] = s.hashes[k],
                     !.pushed[k] = Len(s.hashes[k]),
                     !.out[k] = << >>,
                     !.pending[k] = << >>]

\* append_output_token_ids of a stock request, with its block hasher.
StockToken(s, r, token) ==
  LET t == Append(s.list[r], token)
  IN  [s EXCEPT !.text[r] = Append(@, token), !.list[r] = t,
                !.chain[r] = @ \o From(Chain(t), Len(@) + 1)]

\* A step's accepted tokens, by either way.
Packed(s, r, tokens) == FoldLeft(LAMBDA z, token : PackToken(z, r, token), s, tokens)
Stocked(s, r, tokens) ==
  FoldLeft(LAMBDA z, token : StockToken(z, r, token), Materialize(s, r), tokens)

\* update_from_output of the requests of a batch, all with a slot: those that
\* can be are taken over; if the store then has all of them and the record is
\* packed, the tokens go to it, and otherwise every one of the batch is handed
\* back first (decide, store_step_fallback).
StoreStep(s, batch, accepted, packs) ==
  LET taken == FoldLeft(TakeOver, s, batch)
      all   == \A i \in DOMAIN batch : batch[i] \in taken.facade
  IN  IF packs /\ all
      THEN FoldLeft(LAMBDA z, r : Packed(z, r, accepted[r]), taken, batch)
      ELSE FoldLeft(LAMBDA z, r : Stocked(z, r, accepted[r]), taken, batch)

\* RustMirror.drop and Manager::forget.
Drop(s, r) ==
  LET k == s.slot[r]
  IN  [s EXCEPT !.slot[r] = NoSlot,
                !.gone = @ \cup {r},
                !.pushed[k] = 0,
                !.hashes[k] = << >>,
                !.out[k] = << >>,
                !.pending[k] = << >>]

\* add_request: the prompt is hashed when the object is made.
Arrived(prompt) ==
  [text   |-> prompt,
   list   |-> prompt,
   chain  |-> [r \in Requests |-> Chain(prompt[r])],
   facade |-> {},
   count  |-> [r \in Requests |-> Len(prompt[r])],
   off    |-> {},
   slot   |-> [r \in Requests |-> NoSlot],
   gone   |-> {},
   pushed |-> [k \in Slots |-> 0],
   hashes |-> [k \in Slots |-> << >>],
   out    |-> [k \in Slots |-> << >>],
   pending |-> [k \in Slots |-> << >>]]

------------------------------------------------------------------------------
(* What must hold of a state.                                              *)

Hashes == Seq(Seq(Tokens))

IsState(s) ==
  s \in [text : [Requests -> Seq(Tokens)], list : [Requests -> Seq(Tokens)], chain : [Requests -> Hashes],
         facade : SUBSET Requests, count : [Requests -> Nat], off : SUBSET Requests,
         slot : [Requests -> Slots \cup {NoSlot}], gone : SUBSET Requests,
         pushed : [Slots -> Nat], hashes : [Slots -> Hashes],
         out : [Slots -> Seq(Tokens)], pending : [Slots -> Seq(Tokens)]]

\* The hashes are those of every complete block of the text, and the tail is
\* what they do not cover.
Covers(hashes, tail, t) ==
  /\ Len(tail) < HashBlockSize
  /\ Len(hashes) * HashBlockSize + Len(tail) = Len(t)
  /\ \A i \in 1 .. Len(hashes) : hashes[i] = Prefix(t, i * HashBlockSize)
  /\ tail = From(t, Len(hashes) * HashBlockSize + 1)

\* A stock request: the lists are complete, and the crate has the part of the
\* chain the mirror says it has.
StockIsWhole(s, r) ==
  /\ s.list[r] = s.text[r]
  /\ Covers(s.chain[r], From(s.list[r], Hashed(s, r) + 1), s.text[r])
  /\ s.slot[r] # NoSlot =>
       LET k == s.slot[r]
       IN  /\ s.pushed[k] = Len(s.hashes[k])
           /\ s.pushed[k] <= Len(s.chain[r])
           /\ s.hashes[k] = Prefix(s.chain[r], s.pushed[k])

\* A store-owned one: the lists froze where the store took over, the store has
\* the rest, the counter is the length, and the frozen chain is as long as
\* the mirror thinks the crate's is, so that it never pushes again.
StoreIsWhole(s, r) ==
  LET k == s.slot[r]
  IN  /\ k # NoSlot
      /\ s.list[r] \o s.out[k] = s.text[r]
      /\ s.count[r] = Len(s.text[r])
      /\ Covers(s.hashes[k], s.pending[k], s.text[r])
      /\ s.pushed[k] = Len(s.chain[r])

\* No two requests share a slot, and a free slot remembers nobody.
SlotsAreOwn(s) ==
  /\ \A r1, r2 \in Requests : s.slot[r1] = s.slot[r2] /\ s.slot[r1] # NoSlot => r1 = r2
  /\ \A k \in Slots \ Interned(s) : s.hashes[k] = << >>

Whole(s, r) == IF r \in s.facade THEN StoreIsWhole(s, r) ELSE StockIsWhole(s, r)

Sound(s) ==
  /\ SlotsAreOwn(s)
  /\ \A r \in Requests \ s.gone : Whole(s, r)
==============================================================================
