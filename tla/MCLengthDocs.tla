---------------------------- MODULE MCLengthDocs ----------------------------
(* The seven examples of the module documentation of src/src/length_codec.rs. *)
EXTENDS LengthCodec

\* An example: the builder calls, the bytes in, the frame it says comes out
Example(len, offset, adjustment, skip, input, decoded) ==
  LET at == length_field_offset(NewBuilder, offset)
      field == IF len = 2 THEN length_field_type(at, "u16") ELSE length_field_length(at, len)
      b == length_adjustment(field, adjustment)
  IN  [builder |-> IF skip = NoSkip THEN b ELSE num_skip(b, skip),
       input |-> input, decoded |-> decoded]

HelloWorld == <<72, 101, 108, 108, 111, 32, 119, 111, 114, 108, 100>>

\* Examples 2, 5, 6 and 7
StripTheHead ==
  { Example(2, 0, 0, NoSkip, <<0, 11>> \o HelloWorld, HelloWorld),
    Example(2, 1, 1, 3, <<202, 0, 11, 254>> \o HelloWorld, <<254>> \o HelloWorld),
    Example(2, 1, -3, 3, <<202, 0, 15, 254>> \o HelloWorld, <<254>> \o HelloWorld),
    Example(3, 0, 0, 4, <<0, 0, 11, 255>> \o HelloWorld, HelloWorld) }

\* Examples 1, 3 and 4
KeepTheHead ==
  { Example(2, 0, 0, 0, <<0, 11>> \o HelloWorld, <<0, 11>> \o HelloWorld),
    Example(2, 0, -2, 0, <<0, 13>> \o HelloWorld, <<0, 13>> \o HelloWorld),
    Example(3, 0, 2, 0, <<0, 0, 11, 202, 254>> \o HelloWorld,
                        <<0, 0, 11, 202, 254>> \o HelloWorld) }

StripBuilders == {e.builder : e \in StripTheHead}
StripInputs == {e.input : e \in StripTheHead}
KeepBuilders == {e.builder : e \in KeepTheHead}
KeepInputs == {e.input : e \in KeepTheHead}

DecodesAsShown(examples) ==
  \A e \in examples :
    builder = e.builder /\ stream = e.input /\ frames # <<>> =>
      frames[1].body = e.decoded

(* Examples 2, 5, 6 and 7 of the documentation: with the head stripped, in whole or in
   part, the first frame is the one shown, however the bytes arrive. *)
StrippedExamplesHold == DecodesAsShown(StripTheHead)

(* Examples 1, 3 and 4: with num_skip(0) the frame shown is the head and the whole
   payload. *)
KeptExamplesHold == DecodesAsShown(KeepTheHead)

=============================================================================
