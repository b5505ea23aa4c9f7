---------------------------- MODULE MCInterrupts ----------------------------
(* The timer, a second line of the first controller and one of the second. *)
(* The firmware has masked nothing but a few unused lines, or the timer    *)
(* and the second controller as well.                                      *)
EXTENDS Interrupts

MCFirmwareMasks == {{3, 4, 14}, {0, 2, 14}}
MCOffset == [h \in Handlers |-> CASE h = "fault" -> <<1, 7, 8>>
                                  [] h = "nop_master" -> <<2, 7, 8>>
                                  [] h = "nop_slave" -> <<3, 7, 8>>
                                  [] h = "pitirq" -> <<4, 7, 8>>]
=============================================================================
