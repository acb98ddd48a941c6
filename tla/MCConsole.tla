----------------------------- MODULE MCConsole ------------------------------
(***************************************************************************)
(* Typed sequences with and without the quit key, output with a query and  *)
(* without, and receive buffers that are rejected, empty, or shorter than  *)
(* the input.  The filters are also checked on every sequence of up to     *)
(* MaxLen bytes of an alphabet that can spell a query and a report.        *)
(***************************************************************************)
EXTENDS Console

CONSTANTS Alphabet, MaxLen

SomeKeys == {<<"x", "x">>, <<"x", "Q", "x">>}
SomeOutputs == {<<"x">>, DSR, BadChain}
SomeBuffers == {-1, 0, 2}

AllBytes == UNION {[1 .. n -> Alphabet] : n \in 0 .. MaxLen}

AllReportsStripped == \A bytes \in AllBytes : StripsExactlyReports(bytes)
AllQueriesStripped == \A bytes \in AllBytes : StripsExactlyQueries(bytes)

\* Whatever bytes the next read of stdin returns, strip_cpr_responses takes exactly
\* the cursor position reports out of them; whatever bytes the next transmit chain
\* holds, filter_dsr_and_respond takes exactly the cursor position queries out of it.
FiltersAreExact ==
  /\ reader = "read" => AllReportsStripped
  /\ pc = "tx" => AllQueriesStripped
=============================================================================
