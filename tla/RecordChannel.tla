--------------------------- MODULE RecordChannel ---------------------------
(* What the channel of poh/src/record_channels.rs promises to the transaction
   threads and to the PoH service: a record is accepted only while the channel
   is open for the record's bank, an accepted record is received once, and the
   channel opens for another bank only when nothing accepted is left. *)
EXTENDS Integers

CONSTANTS Records,     \* the records that may be sent
          BankOf(_),   \* the bank a record is for
          Banks,       \* the banks
          NoBank       \* the channel is shut

VARIABLES open,      \* the bank the channel accepts records for
          accepted,  \* accepted and not received yet
          received

channel == <<open, accepted, received>>

ChannelInit == open = NoBank /\ accepted = {} /\ received = {}

Accept(r) ==
  /\ open = BankOf(r)
  /\ r \notin accepted \union received
  /\ accepted' = accepted \union {r}
  /\ UNCHANGED <<open, received>>

Receive(r) ==
  /\ r \in accepted
  /\ accepted' = accepted \ {r}
  /\ received' = received \union {r}
  /\ UNCHANGED open

Shut ==
  /\ open' = NoBank
  /\ UNCHANGED <<accepted, received>>

Open(bank) ==
  /\ open = NoBank /\ accepted = {}
  /\ open' = bank
  /\ UNCHANGED <<accepted, received>>

ChannelNext ==
  \/ \E r \in Records : Accept(r) \/ Receive(r)
  \/ \E b \in Banks : Open(b)
  \/ Shut

ChannelSpec == ChannelInit /\ [][ChannelNext]_channel
============================================================================
