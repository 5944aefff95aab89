------------------------------ MODULE RequestId ------------------------------
(***************************************************************************)
(* Request identifiers of the HAL client.  get_request_header prints the   *)
(* counter in DECIMAL ("%8.8d"), and both sides of the matching            *)
(* (client_send_and_get_reply and response_parse_cb) read the printed      *)
(* string back with strtol(.., 16) and truncate it to a 32-bit int.  The   *)
(* sequence number of a request is therefore not its identifier.           *)
(***************************************************************************)
EXTENDS Integers

\* The value of four decimal digits of n read as four hexadecimal digits.
Hex4(n) == (n % 10) + 16 * ((n \div 10) % 10)
           + 256 * ((n \div 100) % 10) + 4096 * ((n \div 1000) % 10)

\* (int)strtol(sprintf("%8.8d", n), NULL, 16) as its high and low 16-bit
\* halves: every digit beyond the eighth is shifted out of the 32-bit int.
Sequence(n) == << Hex4((n \div 10000) % 10000), Hex4(n % 10000) >>

\* The identifiers whose eight digits fit the 32-bit sequence number.
IdLimit == 100000000
=============================================================================
