--------------------------- MODULE MCHttpCapture ---------------------------
(* TLC instances of HttpCapture: Express errors, one of NestJS, two filters. *)
EXTENDS HttpCapture

CONSTANTS e1, e2, e3, f1, f2
=============================================================================
