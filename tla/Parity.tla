------------------------------- MODULE Parity -------------------------------
(***************************************************************************)
(* A client that maintains the parity of one stripe with encode, update    *)
(* and verify (core/src/encode.rs).  It may fold sources in any order, in  *)
(* pieces, twice (a retry after a crash that lost the outcome), fold a     *)
(* difference after overwriting a source in place, and start over without  *)
(* zeroing.  It may also call with too few buffers, with buffers of        *)
(* different lengths or with a source index out of range.                  *)
(***************************************************************************)
EXTENDS Coder

CONSTANTS
  Coding,   (* the coder: a record built by with_kernels                   *)
  Sources,  (* the buffers a source shard may hold or an update be given   *)
  Lens      (* the lengths parity buffers may be allocated with            *)

K == CoderK(Coding)
P == CoderP(Coding)

(* One table per parity row and source, and buffers of bytes.              *)
ASSUME CodingAssumption ==
  /\ K \in Nat \ {0}
  /\ P \in Nat \ {0}
  /\ Coding.gftbls.coeffs \in [Upto(P * K) -> Byte]
  /\ Lens \subseteq Nat
  /\ \A src \in Sources : Count(src) \in Nat /\ src \in [Upto(Count(src)) -> Byte]

VARIABLES
  data,     (* the client's K source shards                                *)
  parity,   (* the client's P parity buffers                               *)
  folded,   (* history: the sum of all that was folded in for each source  *)
            (* since the parity was zeroed, or the sources last encoded    *)
  last      (* the last call, its verdict and, of a verify, its answer     *)

vars == <<data, parity, folded, last>>

Called(op, verdict, answer) ==
  [op |-> op, verdict |-> verdict, answer |-> answer]

FreshParity(len) == [i \in Upto(K) |-> [q \in Upto(len) |-> {}]]

Init ==
  /\ data \in [Upto(K) -> Sources]
  /\ \E len \in [Upto(P) -> Lens] :
       parity = [l \in Upto(P) |-> [q \in Upto(len[l]) |-> {}]]
  /\ folded = FreshParity(FirstLen(parity))
  /\ last = Called("none", Fine, FALSE)

(* The slice [..n] of a list of buffers the client passes to a call.       *)
Slice(list, n) == [i \in Upto(n) |-> list[i]]

(* parity.fill(0) before a new pass of updates.                            *)
ZeroParity ==
  /\ parity' = [l \in Upto(P) |-> Zeroed(parity[l])]
  /\ folded' = FreshParity(FirstLen(parity))
  /\ last' = Called("none", Fine, FALSE)
  /\ UNCHANGED data

(* The client writes new bytes into a source shard, of the same length.    *)
Overwrite(i, buffer) ==
  /\ DOMAIN buffer = DOMAIN data[i]
  /\ data' = [data EXCEPT ![i] = buffer]
  /\ last' = Called("none", Fine, FALSE)
  /\ UNCHANGED <<parity, folded>>

(* encode(&data[..d], &mut parity[..n])                                    *)
CallEncode(d, n) ==
  LET verdict == encode_verdict(Coding, Slice(data, d), Slice(parity, n))
  IN  /\ last' = Called("encode", verdict, FALSE)
      /\ \/ /\ verdict = Fine
            /\ parity' = encode(Coding, data, parity)
            /\ folded' = data
         \/ /\ verdict # Fine
            /\ UNCHANGED <<parity, folded>>
      /\ UNCHANGED data

(* update(i, src, &mut parity[..n])                                        *)
CallUpdate(i, src, n) ==
  LET verdict == update_verdict(Coding, i, src, Slice(parity, n))
  IN  /\ last' = Called("update", verdict, FALSE)
      /\ \/ /\ verdict = Fine
            /\ parity' = update(Coding, i, src, parity)
            /\ folded' = [folded EXCEPT ![i] =
                            [q \in DOMAIN folded[i] |-> XOR(folded[i][q], src[q])]]
         \/ /\ verdict # Fine
            /\ UNCHANGED <<parity, folded>>
      /\ UNCHANGED data

(* verify(&data[..d], &parity[..n])                                        *)
CallVerify(d, n) ==
  LET verdict == encode_verdict(Coding, Slice(data, d), Slice(parity, n))
  IN  /\ last' = Called("verify", verdict,
                        verdict = Fine /\ verify(Coding, data, parity))
      /\ UNCHANGED <<data, parity, folded>>

Next ==
  \/ ZeroParity
  \/ \E i \in Upto(K), buffer \in Sources : Overwrite(i, buffer)
  \/ \E d \in 0..K, n \in 0..P : CallEncode(d, n) \/ CallVerify(d, n)
  \/ \E i \in 0..K, src \in Sources, n \in 0..P : CallUpdate(i, src, n)

Spec == Init /\ [][Next]_vars
-----------------------------------------------------------------------------
(* Buffers stay byte buffers of an allocated length, and the history one   *)
(* per source.                                                             *)
TypeOK ==
  /\ data \in [Upto(K) -> Sources]
  /\ parity \in [Upto(P) -> Buffers(Lens)]
  /\ folded \in [Upto(K) -> Buffers(Lens)]
  /\ last.op \in {"none", "encode", "update", "verify"}
  /\ last.answer \in BOOLEAN

Uniform == \A l \in Upto(P) : Count(parity[l]) = FirstLen(parity)

(* Whatever the order, the repetitions and the pieces of the updates, the  *)
(* parity is the encoding of what has been folded in: once every source is *)
(* folded exactly once it is the one-shot encoding, and a source folded    *)
(* twice has vanished from it.  (encode.rs update: "any order ...          *)
(* byte-identical output to Coder::encode".)                               *)
ParityTracksFolds == Uniform => parity = encode(Coding, folded, parity)

(* The sources whose bytes are not the ones the parity stands for.         *)
StaleSources == {i \in Upto(K) : data[i] # folded[i]}

(* verify answers yes for parity that is up to date, and never when        *)
(* between one and P sources are stale: only more stale sources than there *)
(* are parity shards can cancel out.                                       *)
VerifyAnswer ==
  last.op = "verify" /\ last.verdict = Fine =>
    /\ StaleSources = {} => last.answer
    /\ last.answer => StaleSources = {} \/ Cardinality(StaleSources) > P

=============================================================================
