------------------------------ MODULE MCCpBridge ------------------------------
(* The bridge with a pool of two threads and three requests.               *)
EXTENDS CpBridge

ThreeRequests == {"q1", "q2", "q3"}
Mixed == [r \in ThreeRequests |-> IF r = "q1" THEN "invalid-hash"
                                  ELSE IF r = "q2" THEN "authorized" ELSE "denied"]

(* A line that is not JSON, a grant, and two lines of JSON.                *)
Prints == [r \in ThreeRequests |-> IF r = "q1" THEN {"text"}
                                   ELSE IF r = "q2" THEN {"grant"} ELSE {"braced"}]

=============================================================================
