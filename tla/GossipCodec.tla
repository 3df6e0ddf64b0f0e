---------------------------- MODULE GossipCodec ----------------------------
(***************************************************************************)
(* Gossip: which topic a message goes out on, and whether what was encoded *)
(* with integers of fixed width is read back with integers of variable     *)
(* width.  An integer is its little-endian bytes.                          *)
(***************************************************************************)
EXTENDS ProtocolConstants, Sequences

Byte == 0 .. 255

\* Kinds by the position of the topic they ask for.
Kinds == <<"tx", "block", "vote">>

\* topics() yields the keys of a hash map in an order of its own.
TopicOf(kind, order) == order[CHOOSE k \in 1..3 : Kinds[k] = kind]

\* The fields of fixed length: the block hash, and what ends a vote, the
\* validator's id and the signature.
HashBytes == 32
SignerBytes == 32 + 96

Votes ==
  [height : [1..8 -> Byte], round : [1..4 -> Byte], block_hash : [1..HashBytes -> Byte],
   vote_type : [1..4 -> Byte], signer : [1..SignerBytes -> Byte]]

\* Mutant: small integers are written as one byte.
EncodeVoteVarint(vote) ==
  <<vote.height[1], vote.round[1]>> \o vote.block_hash \o <<vote.vote_type[1]>> \o vote.signer

EncodeVote(vote) ==
  vote.height \o vote.round \o vote.block_hash \o vote.vote_type \o vote.signer

\* How many bytes an integer takes, from its first; 254 is for 128 bits only.
VarintSizes(first) ==
  CASE first <= 250 -> {1}
    [] first = 251 -> {3}
    [] first = 252 -> {5}
    [] first = 253 -> {9}
    [] OTHER -> {}

\* Where the integer at `at' ends.  It is read as 64 bits whatever its type,
\* and must then fit in `width' bytes.
AfterVarint(data, at, width) ==
  {at + size : size \in
     {s \in IF at < Len(data) THEN VarintSizes(data[at + 1]) ELSE {} :
        at + s <= Len(data) /\ \A k \in at + width + 2 .. at + s : data[k] = 0}}

\* The same for the index of one of two variants.
AfterVariant(data, at) ==
  {p \in AfterVarint(data, at, 1) : data[IF p = at + 1 THEN at + 1 ELSE at + 2] <= 1}

\* Height and round, the hash, the type, the signer, and nothing behind it.
DecodesAsVote(data) ==
  \E p \in AfterVarint(data, 0, 8) : \E q \in AfterVarint(data, p, 4) :
    \E r \in AfterVariant(data, q + HashBytes) : r + SignerBytes = Len(data)

\* The channel a vote's bytes are put in, if any.
ReceivedAsVote(data, topic) ==
  Len(data) <= MAX_P2P_MESSAGE_SIZE /\ topic = "vote" /\ DecodesAsVote(data)

---------------------------------------------------------------------------
\* Whatever the order of the topics, no vote that is broadcast is ever
\* received as a vote: an integer of variable width takes an odd number of
\* bytes, and three of them never the sixteen that were written (p2p.rs
\* 162-187 and 206-208, validator.rs 15-24).
NoVoteReceived(vote, order) == ~ReceivedAsVote(EncodeVote(vote), TopicOf("vote", order))
=============================================================================
