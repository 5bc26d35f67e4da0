----------------------------- MODULE EpioLookup -----------------------------
(***************************************************************************)
(* What the DMA chains promise.  A chain answers the addresses in the RX   *)
(* FIFO it reads with what the SRAM holds there, into the TX FIFO it       *)
(* writes: each address once, in order, with one lookup at one moment,     *)
(* however full the FIFOs are and whatever the other chains do; it keeps   *)
(* at most one address that is looked up and one that is not.  Only        *)
(* setting the chain up again makes it forget an address it has taken.     *)
(***************************************************************************)
EXTENDS EpioChip, EpioSram

CONSTANTS Channels, FifoDepth

VARIABLES chain,             \* chain[c]: from, to, bit_mode, if it is in use
          flight,            \* flight[c]: the requests taken, oldest first
          rx, tx

lookupVars == <<chain, flight, rx, tx, sram>>

Unused == [from |-> <<0, 0>>, to |-> <<0, 0>>, bit_mode |-> 0]

Request(a) == [known |-> FALSE, word |-> a]

Answer(w) == [known |-> TRUE, word |-> w]

\* Bit k of the word that answers address a: the item at a, over and over
Content(a, mode) ==
  {k \in Bits : k % 8 \in sram[ByteAddr(a, (k % mode) \div 8)]}

LookupInit ==
  /\ chain = [c \in Channels |-> Unused]
  /\ flight = [c \in Channels |-> <<>>]
  /\ rx = [m \in SMs |-> <<>>]
  /\ tx = [m \in SMs |-> <<>>]
  /\ SramInit

\* In one step a chain may deliver an answer, then look up an address, then take
\* a new one
Serve(c, deliver, lookup, take) ==
  LET f == flight[c]
      kept == IF deliver THEN Tail(f) ELSE f
      known == IF lookup
               THEN [kept EXCEPT ![1] = Answer(Content(@.word, chain[c].bit_mode))]
               ELSE kept
      from == chain[c].from
      to == chain[c].to
  IN  /\ chain[c] # Unused
      /\ deliver => f # <<>> /\ f[1].known /\ Len(tx[to]) < FifoDepth
      /\ lookup => kept # <<>> /\ ~kept[1].known
      /\ take => rx[from] # <<>> /\ \A k \in DOMAIN known : known[k].known
      /\ tx' = IF deliver THEN [tx EXCEPT ![to] = Append(@, f[1].word)] ELSE tx
      /\ rx' = IF take THEN [rx EXCEPT ![from] = Tail(@)] ELSE rx
      /\ flight' = [flight EXCEPT ![c] =
                      IF take THEN Append(known, Request(Head(rx[from]))) ELSE known]
      /\ UNCHANGED <<chain, sram>>

\* The host sets a chain up, for the first time or again
Abandon(c) ==
  /\ chain'[c] # Unused
  /\ \A d \in Channels \ {c} : chain'[d] = chain[d]
  /\ flight' = [flight EXCEPT ![c] = <<>>]
  /\ UNCHANGED <<rx, tx, sram>>

\* A word enters or leaves a FIFO at its end
Moves(q, r) ==
  \E m \in SMs :
    /\ \A n \in SMs \ {m} : r[n] = q[n]
    /\ \/ q[m] # <<>> /\ r[m] = Tail(q[m])
       \/ r[m] # <<>> /\ Len(r[m]) <= FifoDepth
            /\ q[m] = SubSeq(r[m], 1, Len(r[m]) - 1)

\* The state machines and the host move a word, or the host writes the SRAM
OthersMove ==
  /\ \/ Moves(rx, rx') /\ UNCHANGED <<tx, sram>>
     \/ Moves(tx, tx') /\ UNCHANGED <<rx, sram>>
     \/ UNCHANGED <<rx, tx>>
  /\ UNCHANGED <<chain, flight>>

LookupNext ==
  \/ \E c \in Channels : \E deliver, lookup, take \in BOOLEAN :
       Serve(c, deliver, lookup, take)
  \/ \E c \in Channels : Abandon(c)
  \/ OthersMove

LookupSpec == LookupInit /\ [][LookupNext]_lookupVars
=============================================================================
