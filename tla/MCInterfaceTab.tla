------------------------- MODULE MCInterfaceTab -------------------------
(* Small instance of InterfaceTab: one adapter, one static setting beside  *)
(* DHCP, two workers.                                                       *)
EXTENDS InterfaceTab, Naturals, TLC

CONSTANTS a1, s1

MCAdapters == {a1}
MCStatics == {s1}
MCJobs == 1..2

=============================================================================
