---------------------------- MODULE BookContract ----------------------------
(***************************************************************************)
(* What ManagedBookFeed promises to the callers of book() and health(),    *)
(* with no connection, frame, timer or task: an instrument is dark, usable *)
(* or settled; a usable book has the content of one market, the first ever *)
(* established for the instrument; settling is for ever; and a connection  *)
(* attempt or a close never happens under a usable book.                   *)
(***************************************************************************)
EXTENDS Naturals

CONSTANTS Instruments, Markets, NoMarket

VARIABLES
    closed,      \* the feed was closed
    generation,  \* the connection attempt the observations belong to
    status,      \* per instrument: dark, usable, settled
    market,      \* per instrument: the market established, or NoMarket
    content      \* per instrument: the markets a usable book was built from

vars == <<closed, generation, status, market, content>>

Init ==
    /\ closed = FALSE
    /\ generation = 0
    /\ status = [i \in Instruments |-> "dark"]
    /\ market = [i \in Instruments |-> NoMarket]
    /\ content = [i \in Instruments |-> {}]

\* What may become of one instrument in one step of a live feed.
Moves(i) ==
    /\ \/ status'[i] = status[i]
       \/ status[i] = "dark" /\ status'[i] = "usable"
       \/ status[i] = "usable" /\ status'[i] = "dark"
       \/ status'[i] = "settled"
    /\ market[i] # NoMarket => market'[i] = market[i]
    /\ IF status'[i] = "usable" THEN content'[i] \subseteq {market'[i]}
                                ELSE content'[i] = {}

\* Books are published, withdrawn and settled, several at once.
Update ==
    /\ ~closed /\ generation > 0
    /\ status' \in [Instruments -> {"dark", "usable", "settled"}]
    /\ market' \in [Instruments -> Markets \cup {NoMarket}]
    /\ content' \in [Instruments -> SUBSET Markets]
    /\ \A i \in Instruments : Moves(i)
    /\ UNCHANGED <<closed, generation>>

\* A connection attempt starts from nothing.
Attempt ==
    /\ ~closed
    /\ \A i \in Instruments : status[i] # "usable"
    /\ generation' = generation + 1
    /\ UNCHANGED <<closed, status, market, content>>

Close ==
    /\ ~closed /\ closed' = TRUE
    /\ status' = [i \in Instruments |-> IF status[i] = "usable" THEN "dark" ELSE status[i]]
    /\ content' = [i \in Instruments |-> {}]
    /\ UNCHANGED <<generation, market>>

Next == Update \/ Attempt \/ Close

Spec == Init /\ [][Next]_vars

=============================================================================
