------------------------------- MODULE Outbound -------------------------------
(***************************************************************************)
(* Messages waiting for the end of a frame, packed into one packet per     *)
(* peer and channel.  A message is a record with a mode and a size in      *)
(* bytes, its type index included; what is inside is another module's.     *)
(***************************************************************************)
EXTENDS Naturals, Sequences

SendModes == {"Reliable", "ReliableNoDelay", "Unreliable"}
is_reliable(mode) == mode # "Unreliable"

\* What push allows for the framing, whatever the frame will hold.
FramingAllowance == 8

NewBatch(to, m) == [to |-> to, mode |-> m.mode, packets |-> <<m>>, bytes |-> m.size]
Joined(b, m) ==
  [to |-> b.to, mode |-> b.mode, packets |-> Append(b.packets, m), bytes |-> b.bytes + m.size]

fits(batch, to, m, limit) ==
  /\ batch.to = to /\ batch.mode = m.mode
  /\ m.mode # "ReliableNoDelay"
  /\ batch.bytes + m.size + FramingAllowance <= limit

\* Added to the last batch it fits in, which need not be the last for its peer.
push(batches, to, m, limit) ==
  LET Fitting == {i \in DOMAIN batches : fits(batches[i], to, m, limit)}
      last == CHOOSE i \in Fitting : \A j \in Fitting : j <= i
  IN IF Fitting = {} THEN Append(batches, NewBatch(to, m))
     ELSE [batches EXCEPT ![last] = Joined(@, m)]

\* The bytes write_varint takes, seven bits in each; and the length of what
\* frame_packets makes of a batch: a lone message goes as it is.
varint_bytes(n) == IF n < 128 THEN 1 ELSE IF n < 16384 THEN 2 ELSE 3
frame_bytes(packets) ==
  LET held[i \in 0..Len(packets)] ==
        IF i = 0 THEN 0 ELSE held[i - 1] + varint_bytes(packets[i].size) + packets[i].size
  IN IF Len(packets) = 1 THEN packets[1].size
     ELSE 2 + varint_bytes(Len(packets)) + held[Len(packets)]
==============================================================================
