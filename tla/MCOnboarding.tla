---------------------------- MODULE MCOnboarding ----------------------------
(***************************************************************************)
(* Somebody with one address and one number, or two people who share them, *)
(* in every way at once, with a second invitation to the number.           *)
(***************************************************************************)
EXTENDS Onboarding, TLC

CONSTANTS personal, business, letter, otp, call, recall, address, number

Sagas == {personal, business, letter, otp, call, recall}
Kinds ==
    personal :> "personal" @@ business :> "company" @@ letter :> "mail" @@ otp :> "code"
    @@ call :> "phone" @@ recall :> "phone"
Mails == [s \in Sagas |-> IF Kinds[s] = "phone" THEN None ELSE address]
Phones == [s \in Sagas |-> IF Kinds[s] = "mail" THEN None ELSE number]

Symmetric == Permutations(Worker) \union Permutations({call, recall})
=============================================================================
