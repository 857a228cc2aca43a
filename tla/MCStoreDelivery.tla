-------------------------- MODULE MCStoreDelivery --------------------------
(* One Q_DELIVER pass over three recipient lines, with two stores (the    *)
(* local host and another) that every calendar line may address, and a    *)
(* connection array that grows one slot at a time.                         *)
EXTENDS StoreDelivery

CONSTANTS host, other   \* store addresses (model values)

\* Calendar lines only, and a calendar line before or after a local one.
MCPasses == {<<"C", "C", "C">>, <<"C", "L", "C">>, <<"Ln", "C", "C">>}
\* The same lines with every local line after the calendar lines.
MCCalendarFirst == {<<"C", "C", "L">>}
=============================================================================
