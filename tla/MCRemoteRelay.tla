--------------------------- MODULE MCRemoteRelay ---------------------------
(* RemoteRelay on small instances, and the liveness that only TLC checks.   *)
EXTENDS RemoteRelay

\* Each instruction with the class byte and the field the policy looks at varied
\* where it means something.  Of the instructions that only differ in where they
\* are allowed, one stands for each row of the rules.
MCSent ==
  LET Gp(i) == [Plain(i) EXCEPT !.cls = "gp-sm"]
  IN     {Plain(i) : i \in {"GET_STATUS", "GET_DATA_PIV", "INITIALIZE_UPDATE",
                            "PUT_DATA", "PUT_KEY", "CTAP_MSG", "VERIFY"}}
    \cup {[Plain("SELECT") EXCEPT !.aid = a] : a \in (Applets \ {"isd"}) \cup {"", "unreadable"}}
    \cup {[Plain(i) EXCEPT !.ref = r] : i \in KeyIns \cup {"CHANGE_REFERENCE_DATA"},
                                       r \in {Slot, "9C", MANAGEMENT_KEY_REF, CARDHOLDER_REF}}
    \cup {[Gp("EXTERNAL_AUTHENTICATE") EXCEPT !.enc = e] : e \in BOOLEAN}
    \cup {[Gp("DELETE") EXCEPT !.aid = a, !.target = a] : a \in {"piv"} \cup Neighbours}
    \cup {[Gp("DELETE") EXCEPT !.aid = "opaque", !.target = a] : a \in {"piv"} \cup Neighbours}
    \cup {Gp(i) : i \in {"LOAD", "INSTALL"}}
    \cup {[Plain("GET_STATUS") EXCEPT !.cls = c] : c \in Classes \ {"plain", "gp-sm"}}

\* If the service sooner or later stops sending log lines and ATR requests, the
\* operation ends: the caps on commands and challenges and the receive timeout
\* leave nothing else that could keep run_operation's loop going for ever.
EndsUnlessChattering ==
  <>[][~LogOrAtr]_vars => <>(pc = "done")

=============================================================================
