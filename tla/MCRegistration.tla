--------------------------- MODULE MCRegistration ---------------------------
(***************************************************************************)
(* What surrounds a registration batch, in one run: the list of accounts   *)
(* with its imports, the engine, the mailboxes, the solvers of captchas    *)
(* and the attempts.  They share no state: the initial states choose the   *)
(* part that moves, the others stay where they start.                      *)
(*                                                                         *)
(* There are two accounts to convert and an id for a third; one request is *)
(* for both accounts and names one of them twice, the other one is for     *)
(* that account alone.                                                     *)
(***************************************************************************)
EXTENDS AccountImport, RegisterEngine, MailPool, CaptchaSolver, RegisterAttempt, TLC

CONSTANTS i1, i2, i3, c1, c2

VARIABLE part

partVars == <<part, vars, engVars, mailVars, capVars, attVars>>

RequestLists == (c1 :> {<<i1, i2, i1>>}) @@ (c2 :> {<<i1>>})

Pending(e) == [email |-> e, sso |-> TRUE, token |-> FALSE, imported |-> FALSE,
               note |-> NoNote]

TwoAccounts == {(i1 :> Pending("e1")) @@ (i2 :> Pending("e2")) @@ (i3 :> None)}

PartsInit ==
  /\ part \in {"accounts", "engine", "mail", "captcha", "attempt"}
  /\ Init /\ EngInit /\ MailInit /\ CapInit /\ AttInit
  /\ part # "captcha" => capLimit = 1

PartsNext ==
  \/ /\ part = "accounts" /\ Next
     /\ UNCHANGED <<part, engVars, mailVars, capVars, attVars>>
  \/ /\ part = "engine" /\ EngNext
     /\ UNCHANGED <<part, vars, mailVars, capVars, attVars>>
  \/ /\ part = "mail" /\ MailNext
     /\ UNCHANGED <<part, vars, engVars, capVars, attVars>>
  \/ /\ part = "captcha" /\ CapNext
     /\ UNCHANGED <<part, vars, engVars, mailVars, attVars>>
  \/ /\ part = "attempt" /\ AttNext
     /\ UNCHANGED <<part, vars, engVars, mailVars, capVars>>

PartsSpec == PartsInit /\ [][PartsNext]_partVars
=============================================================================
