---------------------------- MODULE MCLengthCodec ----------------------------
(* Instances of LengthCodec: every short stream over a small byte alphabet. *)
EXTENDS LengthCodec, SequencesExt

Builder(max, len, offset, adjustment) ==
  length_adjustment(length_field_offset(length_field_length(max_frame_length(
    NewBuilder, max), len), offset), adjustment)

\* The proxy's LENGTH_DELIMITED_CODEC with its 4-byte field and 1 MiB scaled down,
\* little endian, a head before and after the field, and a length that counts the head.
MCBuilders ==
  { Builder(2, 1, 0, 0),
    Builder(4, 2, 0, 0),
    little_endian(Builder(4, 2, 0, 0)),
    num_skip(Builder(3, 1, 1, 1), 3),
    Builder(4, 1, 0, -1) }

MCStreams == UNION { [1 .. n -> Byte] : n \in 0 .. 6 }

\* The assertion of length_field_length() holds for these configurations
ASSUME CanBeBuilt == \A b \in Builders : LengthFieldAllowed(b.length_field_len)

\* What the theorem about SameAsReadAtOnce assumes
ASSUME ReadAtOnce == CanBeReadAtOnce

-----------------------------------------------------------------------------
(* Streams written by encode(), with the same configuration or with another *)

\* Configurations that encode() serves too: the field comes first, nothing is skipped.
\* The last has a maximum that its field cannot say.
MCBothWays ==
  { Builder(3, 1, 0, 0),
    Builder(5, 2, 0, 0),
    little_endian(Builder(5, 2, 0, 0)),
    Builder(5, 2, 0, -2),
    native_endian(Builder(5, 2, 0, 1), "little"),
    Builder(5, 1, 0, 0) }

Payloads == UNION { [1 .. n -> {0, 3}] : n \in 1 .. 3 } \cup { [i \in 1 .. 4 |-> 0] }
MCPayloadLists ==
  {<<>>} \cup {<<p>> : p \in Payloads} \cup {<<p, q>> : p, q \in Payloads}

\* Every payload that the proxy's own configuration allows is Readable
ASSUME ProxyFieldHolds ==
  /\ LENGTH_DELIMITED_CODEC.length_adjustment = 0
  /\ LENGTH_DELIMITED_CODEC.max_frame_len < 2^(7 * LENGTH_DELIMITED_CODEC.length_field_len)

EncodeAll(b, ps) == FoldLeft(LAMBDA s, p : s \o encode(b, p), <<>>, ps)

Encodings(b) ==
  {EncodeAll(b, ps) : ps \in {qs \in MCPayloadLists :
     \A i \in DOMAIN qs : Encodable(b, qs[i]) /\ Readable(b, Len(qs[i]))}}

MCEncodings == UNION {Encodings(b) : b \in MCBothWays}

\* These are streams of the kind that RoundTrip is about
ASSUME EncodingsAreWritten ==
  \A b \in MCBothWays :
    /\ BothWays(b)
    /\ \A s \in Encodings(b) : \E ps \in MCPayloadLists : WrittenAs(b, s, ps)

=============================================================================
