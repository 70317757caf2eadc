----------------------------- MODULE SealedBox -----------------------------
(***************************************************************************)
(* What authenticated encryption promises (lockWith and unlockWith of      *)
(* Raaz.AuthEncrypt): a packet opens for who has the key, and the          *)
(* additional data, with which it was locked, and then yields what was     *)
(* locked if that is an encoding of the type which is asked for;           *)
(* everything else yields Nothing.                                         *)
(***************************************************************************)
CONSTANTS
  Parses(_, _), \* is a sequence of bytes an encoding of an object of the type?
  NoRequest, NoAnswer, Nothing

VARIABLES boxes,    \* what was locked: key, aad, plain and the packet
          request,  \* key, aad, packet and type of the running unlock
          answer

vars == <<boxes, request, answer>>

Init == boxes = {} /\ request = NoRequest /\ answer = NoAnswer

Lock ==
  /\ request = NoRequest
  /\ \E box \in boxes' : boxes' = boxes \cup {box}
  /\ UNCHANGED <<request, answer>>

Ask ==
  /\ request = NoRequest
  /\ request' # NoRequest
  /\ answer' = NoAnswer
  /\ UNCHANGED boxes

Matching ==
  {box \in boxes : /\ box.key = request.key
                   /\ box.aad = request.aad
                   /\ box.packet = request.packet}

Answer ==
  /\ request # NoRequest
  /\ request' = NoRequest
  /\ IF Matching = {} THEN answer' = Nothing
     ELSE \A box \in Matching :
            answer' = IF Parses(request.type, box.plain) THEN box.plain ELSE Nothing
  /\ UNCHANGED boxes

Next == Lock \/ Ask \/ Answer

Spec == Init /\ [][Next]_vars
=============================================================================
