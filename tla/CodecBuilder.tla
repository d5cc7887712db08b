---------------------------- MODULE CodecBuilder ----------------------------
(***************************************************************************)
(* Builder of src/src/length_codec.rs: the configuration of a              *)
(* LengthDelimitedCodec, the calls that set it up, and what the codec      *)
(* derives from it. A call gives the builder it leaves behind.             *)
(***************************************************************************)
EXTENDS Integers

\* Option<usize>::None for num_skip
NoSkip == -1

BuilderType ==
  [max_frame_len : Nat, length_field_len : 1 .. 8, length_field_offset : Nat,
   length_adjustment : Int, num_skip : Nat \cup {NoSkip},
   length_field_is_big_endian : BOOLEAN]

\* Builder::new()
NewBuilder ==
  [max_frame_len |-> 8 * 1024 * 1024, length_field_len |-> 4, length_field_offset |-> 0,
   length_adjustment |-> 0, num_skip |-> NoSkip, length_field_is_big_endian |-> TRUE]

big_endian(b) == [b EXCEPT !.length_field_is_big_endian = TRUE]
little_endian(b) == [b EXCEPT !.length_field_is_big_endian = FALSE]
max_frame_length(b, val) == [b EXCEPT !.max_frame_len = val]
length_field_offset(b, val) == [b EXCEPT !.length_field_offset = val]
length_adjustment(b, val) == [b EXCEPT !.length_adjustment = val]
num_skip(b, val) == [b EXCEPT !.num_skip = val]

\* native_endian(), by the target the program is built for
native_endian(b, target) == IF target = "big" THEN big_endian(b) ELSE little_endian(b)

\* length_field_length(val) asserts this of val
LengthFieldAllowed(val) == val > 0 /\ val <= 8
length_field_length(b, val) == [b EXCEPT !.length_field_len = val]

\* length_field_type::<T>(): the size of the type, of a target with 64 bits
SizeOf == [u8 |-> 1, u16 |-> 2, u32 |-> 4, u64 |-> 8, usize |-> 8]
length_field_type(b, type) == length_field_length(b, SizeOf[type])

\* The codec of the proxy, 1 MiB at most
LENGTH_DELIMITED_CODEC ==
  big_endian(length_adjustment(length_field_offset(length_field_length(
    max_frame_length(NewBuilder, 1024 * 1024), 4), 0), 0))

-----------------------------------------------------------------------------
\* Faulty form: bytes to skip beyond the length field are not waited for
NumHeadBytes_FieldOnly(b) == b.length_field_offset + b.length_field_len

\* num_head_bytes(): the bytes needed before the head can be read
NumHeadBytes(b) ==
  LET num == b.length_field_offset + b.length_field_len
  IN  IF b.num_skip > num THEN b.num_skip ELSE num

\* Faulty form: num_skip is ignored
GetNumSkip_Ignored(b) == b.length_field_offset + b.length_field_len

\* get_num_skip(): the bytes dropped in front of the frame
GetNumSkip(b) ==
  IF b.num_skip = NoSkip THEN b.length_field_offset + b.length_field_len
                         ELSE b.num_skip

=============================================================================
