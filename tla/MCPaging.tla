------------------------------ MODULE MCPaging ------------------------------
(* An instance of Paging for TLC: small limits, programs below and above     *)
(* them, and one page more than the table of pages has.                      *)
EXTENDS Paging
=============================================================================
