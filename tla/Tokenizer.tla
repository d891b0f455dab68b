----------------------------- MODULE Tokenizer ------------------------------
(***************************************************************************)
(* BPETokenizer of training/tokenizer.py, with which the local model reads *)
(* and writes: merges learned from the words of a corpus, and their use to *)
(* encode and decode.  A word is its bytes.  Definitions only, checked on  *)
(* small corpora.                                                          *)
(***************************************************************************)
EXTENDS Integers, Sequences, SequencesExt, FiniteSets

CONSTANTS
    Base,      \* the number of byte values (256); merge n makes the id Base + n - 1
    Space      \* the byte between two words

PairsOf(seq) == {<<seq[i], seq[i + 1]>> : i \in 1..Len(seq) - 1}

(* Every occurrence of the pair that does not overlap one further left.     *)
Merged(seq, pair, new) ==
    LET from[i \in 1..Len(seq) + 1] ==
            IF i > Len(seq) THEN <<>>
            ELSE IF i < Len(seq) /\ pair = <<seq[i], seq[i + 1]>>
            THEN <<new>> \o from[i + 2]
            ELSE <<seq[i]>> \o from[i + 1]
    IN  from[1]

-----------------------------------------------------------------------------
(* Training. *)

Frequency(seqs, pair) ==
    Cardinality({<<k, i>> \in (DOMAIN seqs) \X (1..Len(FlattenSeq(seqs))) :
                    i < Len(seqs[k]) /\ pair = <<seqs[k][i], seqs[k][i + 1]>>})

(* The most frequent pair; among equals the smallest. *)
BestPair(seqs) ==
    LET pairs == UNION {PairsOf(seqs[k]) : k \in DOMAIN seqs}
        smaller(p, q) == p[1] < q[1] \/ (p[1] = q[1] /\ p[2] < q[2])
    IN  CHOOSE p \in pairs : \A q \in pairs \ {p} :
            \/ Frequency(seqs, p) > Frequency(seqs, q)
            \/ Frequency(seqs, p) = Frequency(seqs, q) /\ smaller(p, q)

(* After at most n merges: the merges in their order, and the words as they *)
(* are cut up by then.                                                      *)
Trained(words, n) ==
    LET after[k \in 0..n] ==
            IF k = 0 THEN [merges |-> <<>>, words |-> words]
            ELSE LET before == after[k - 1]
                     best == BestPair(before.words)
                 IN  IF \A i \in DOMAIN words : Len(before.words[i]) < 2 THEN before
                     ELSE [merges |-> Append(before.merges, best),
                           words |-> [i \in DOMAIN words |->
                              Merged(before.words[i], best, Base + Len(before.merges))]]
    IN  after[n]

-----------------------------------------------------------------------------
(* Encoding: as long as some pair has a merge, the earliest merge is done,  *)
(* at its leftmost place.                                                   *)
EncodeStep(merges, seq) ==
    LET found == {<<m, i>> \in (DOMAIN merges) \X (1..Len(seq) - 1) :
                     merges[m] = <<seq[i], seq[i + 1]>>}
        first == CHOOSE f \in found : \A g \in found :
                     f[1] < g[1] \/ (f[1] = g[1] /\ f[2] <= g[2])
    IN  IF found = {} THEN seq
        ELSE SubSeq(seq, 1, first[2] - 1) \o <<Base + first[1] - 1>>
             \o SubSeq(seq, first[2] + 2, Len(seq))

EncodeWord(merges, word) ==
    LET after[k \in 0..Len(word)] ==
            IF k = 0 THEN word ELSE EncodeStep(merges, after[k - 1])
    IN  after[Len(word)]

(* A space between words, whatever stood there. *)
Joined(words) ==
    FlattenSeq([i \in DOMAIN words |->
        IF i < Len(words) THEN Append(words[i], Space) ELSE words[i]])

Encode(merges, words) ==
    Joined([i \in DOMAIN words |-> EncodeWord(merges, words[i])])

(* _build_index: the bytes of an id; decode leaves out an id without any.   *)
BytesOf(merges) ==
    LET bytes[id \in 0..Base + Len(merges) - 1] ==
            IF id < Base THEN <<id>>
            ELSE bytes[merges[id - Base + 1][1]] \o bytes[merges[id - Base + 1][2]]
    IN  bytes

Decode(merges, ids) ==
    LET bytes == BytesOf(merges)
    IN  FlattenSeq([i \in DOMAIN ids |->
            IF ids[i] \in DOMAIN bytes THEN bytes[ids[i]] ELSE <<>>])

-----------------------------------------------------------------------------
(* What a reader of encode() and train() takes for granted: a text comes    *)
(* back as its words with one space between them, and encoding, which picks *)
(* merges one at a time, cuts a word of the corpus up as training did,      *)
(* which went through the corpus merge by merge.                            *)
RoundTrip(corpus, n, words) ==
    LET merges == Trained(corpus, n).merges
    IN  Decode(merges, Encode(merges, words)) = Joined(words)

EncodesAsTrained(corpus, n) ==
    LET model == Trained(corpus, n)
    IN  \A i \in DOMAIN corpus : EncodeWord(model.merges, corpus[i]) = model.words[i]
=============================================================================
