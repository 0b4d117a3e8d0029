----------------------------- MODULE MCAccounts -----------------------------
(* TLC instance of the accounts: emails, phones and passwords are each    *)
(* interchangeable, and so are the handler goroutines.                     *)
EXTENDS Accounts, TLC

MCSymmetry ==
    Permutations(Emails) \cup Permutations(Phones) \cup Permutations(Passwords)
    \cup Permutations(Handlers)

=============================================================================
