-------------------------------- MODULE Dlpi --------------------------------
(* get_addrs_dlpi() and the part of dlcommon.c it uses: the hardware address *)
(* is asked from the driver of the interface by messages, first an attach,   *)
(* then a bind, then the question.  Every answer is waited for, for MAXWAIT  *)
(* seconds at most, and an answer other than the expected one ends the       *)
(* program.  The driver may refuse a request, and once the stream is bound   *)
(* it passes on the frames that arrive, too.                                 *)
EXTENDS Naturals, Sequences

VARIABLES dlstage,       \* the request that is next or was put last; "open" before
                         \* and "closed" after the exchange, "exited" if it failed
          waiting,       \* the client is in strgetmsg()
          driver,        \* the driver's state: "unattached", "unbound" or "idle"
          pending,       \* the request it has not answered, or "none"
          stream,        \* messages the client has not read, the next one first
          got_hw_addr

vars == <<dlstage, waiting, driver, pending, stream, got_hw_addr>>

Init == /\ dlstage = "open" /\ waiting = FALSE
        /\ driver = "unattached" /\ pending = "none" /\ stream = << >>
        /\ got_hw_addr = FALSE

(* A device name without a unit number, or a device that cannot be opened    *)
(* under either name: the hardware address stays unknown.                    *)
OpenDevice == /\ dlstage = "open"
              /\ dlstage' \in {"attach", "closed"}
              /\ UNCHANGED <<waiting, driver, pending, stream, got_hw_addr>>

Requests == {"attach", "bind", "info"}

Exit == dlstage' = "exited" /\ waiting' = FALSE

(* putmsg() of a request, which may fail.                                    *)
Put(request) == /\ dlstage = request /\ ~ waiting
                /\ \/ waiting' = TRUE /\ pending' = request /\ dlstage' = dlstage
                   \/ Exit /\ pending' = pending
                /\ UNCHANGED <<driver, stream, got_hw_addr>>

dlattachreq == Put("attach")
dlbindreq == Put("bind")
dlinforeq == Put("info")

Ack == [attach |-> "ok_ack", bind |-> "bind_ack", info |-> "info_ack"]

Message(prim, hipri, full) == [prim |-> prim, hipri |-> hipri, full |-> full]

After == [attach |-> "unbound", bind |-> "idle", info |-> "idle"]

Before == [attach |-> {"unattached"}, bind |-> {"unbound"}, info |-> {"unbound", "idle"}]

(* The driver answers, ahead of the frames it has passed on if the answer    *)
(* has high priority, or refuses.                                            *)
Answer == /\ pending \in Requests
          /\ \/ /\ driver \in Before[pending]
                /\ driver' = After[pending]
                /\ \E full \in BOOLEAN :
                      \/ stream' = <<Message(Ack[pending], TRUE, full)>> \o stream
                      \/ stream' = stream \o <<Message(Ack[pending], FALSE, full)>>
             \/ /\ driver' = driver
                /\ stream' = <<Message("error_ack", TRUE, TRUE)>> \o stream
          /\ pending' = "none"
          /\ UNCHANGED <<dlstage, waiting, got_hw_addr>>

(* A frame arrives on a bound stream; one waiting is as good as many.        *)
Frame == /\ driver = "idle" /\ stream = << >> /\ dlstage \in Requests
         /\ stream' = <<Message("unitdata_ind", FALSE, TRUE)>>
         /\ UNCHANGED <<dlstage, waiting, driver, pending, got_hw_addr>>

MutantAccepted(m) == m.hipri /\ m.full

(* expecting(), and the checks of flags and length.                          *)
Accepted(m) == m.prim = Ack[dlstage] /\ m.hipri /\ m.full

(* strgetmsg() returns with the next message.                                *)
Get(request, next) == /\ dlstage = request /\ waiting /\ stream # << >>
                      /\ stream' = Tail(stream)
                      /\ IF Accepted(Head(stream))
                         THEN dlstage' = next /\ waiting' = FALSE
                         ELSE Exit
                      /\ UNCHANGED <<driver, pending>>

dlokack == Get("attach", "bind") /\ UNCHANGED got_hw_addr
dlbindack == Get("bind", "info") /\ UNCHANGED got_hw_addr

(* The address is taken if the lengths the driver gives add up to six.       *)
dlinfoack == /\ Get("info", "closed")
             /\ got_hw_addr' \in IF dlstage' = "closed" THEN BOOLEAN ELSE {FALSE}

(* sigalrm()                                                                 *)
Timeout == /\ waiting /\ stream = << >>
           /\ Exit
           /\ UNCHANGED <<driver, pending, stream, got_hw_addr>>

Next == \/ OpenDevice
        \/ dlattachreq \/ dlokack \/ dlbindreq \/ dlbindack \/ dlinforeq \/ dlinfoack
        \/ Answer \/ Frame \/ Timeout

(* "All of these functions exit() out on failure" (addrs_dlpi.c:125-127):    *)
(* whatever the driver answers, a request is only put when the driver has    *)
(* carried out the one before, and the address comes from a bound stream.    *)
InStep == /\ pending = "bind" => driver = "unbound"
          /\ pending = "info" \/ got_hw_addr => driver = "idle"
=============================================================================
