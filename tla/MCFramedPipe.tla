---------------------------- MODULE MCFramedPipe ----------------------------
(* The proxy's own codec on streams of up to three small frames, whole, cut off anywhere, *)
(* or with a length above the maximum in front.                                           *)
EXTENDS FramedPipe, SequencesExt

\* 1 MiB scaled down to 3, so that a length of 4 or more is above it
MCPipeBuilders == {max_frame_length(LENGTH_DELIMITED_CODEC, 3)}

MCRefused(body) == body # <<>> /\ body[1] = 3

MCBodies == {<<>>, <<1>>, <<3>>, <<0, 0>>}
Framed(body) == PutUint(Len(body), 4) \o body
Wire(bodies) == FlattenSeq([i \in DOMAIN bodies |-> Framed(bodies[i])])

Whole == {Wire(<<a, b>>) : a, b \in MCBodies}
         \cup {Wire(<<<<1>>, <<0, 0>>, c>>) : c \in {<<1>>, <<3>>}}
TooLong == {Wire(<<<<1>>>>) \o <<0, 0, 1, 0, 2>>}
MCPipeStreams == UNION {{SubSeq(w, 1, n) : n \in 0 .. Len(w)} : w \in Whole \cup TooLong}

-----------------------------------------------------------------------------
(* The pipe ends for every client that sends what it has to send and closes: a frame that
   is cut off is not waited for. *)
PipeEnds == <>(ended # "no")

=============================================================================
