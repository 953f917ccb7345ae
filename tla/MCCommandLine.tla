----------------------------- MODULE MCCommandLine -----------------------------
(* Three small scripts.  In the first the subject's key and the claim are     *)
(* each made twice, into one file, and the claim is presented in part; in the *)
(* second a presentation passes through a W3C document; in the third a        *)
(* disclosed claim is exported under its issuer's key and under another's.    *)
(* The invocations are named after what they do in the first.                 *)
EXTENDS CommandLine, TLC

CONSTANTS uni, keyS, keyS2, issue1, issue2, present1, verify1, acme

MCHash(content) == <<"id", content>>

Text(r) == [kind |-> "text", rank |-> r]

MCTagValue(category) == Text(0)

Titled(rank) == [category |-> "employment", field |-> "title", op |-> "Ge",
                 bound |-> Text(rank), scale_version |-> AnyScale]

MCGiven ==
    "issuer.key" :> Parsed("secret", uni)
    @@ "disclosed.json" :>
          Parsed("disclosed", Disclose(IssueClaim(acme, uni, "employment", "v1", 0, OpenEnd,
                                                  [title |-> Text(1)], {}), {"title"}))

MCInvocation == {keyS, keyS2, issue1, issue2, present1, verify1}

Cmd(cmd, in, out) == [cmd |-> cmd, in |-> in, out |-> out]
Keys(out) == Cmd("keygen", <<>>, out)

EmploymentFor(until) ==
    [cmd |-> "issue", in |-> <<"issuer.key">>, out |-> "claim.json", subject |-> keyS,
     until |-> until, body |-> [title |-> Text(1), start |-> Text(2)]]

CheckUntil(day) ==
    [cmd |-> "issue-check", in |-> <<"issuer.key">>, out |-> "claim.json", subject |-> keyS,
     body |-> [title |-> Text(3), valid_until |-> Text(day)]]

PresentingFor(seconds, reveal) ==
    [cmd |-> "present", in |-> <<"subject.key", "claim.json">>, out |-> "shown.json",
     audience |-> acme, expires_in |-> seconds, reveal |-> reveal]

Verifying(file, predicates) ==
    [cmd |-> "verify", in |-> <<file>>, out |-> Stdout, audience |-> acme,
     issuer_keys |-> {uni}, predicates |-> predicates]

Only(keys) == [of |-> 2, keys |-> keys]

Overwriting ==
    [r \in MCInvocation |->
        CASE r \in {keyS, keyS2} -> Keys("subject.key")
          [] r = issue1 -> EmploymentFor(0)
          [] r = issue2 -> CheckUntil(0)
          [] r = present1 -> PresentingFor(0, <<Only({"start"}), Only({"title"})>>)
          [] r = verify1 -> Verifying("shown.json", {Titled(1)})]

Exchanging ==
    [r \in MCInvocation |->
        CASE r = keyS -> Keys("subject.key")
          [] r = issue1 -> CheckUntil(0)
          [] r = present1 -> PresentingFor(1, <<>>)
          [] r = keyS2 -> Cmd("export-vp", <<"shown.json">>, "vp.json") @@ [issuer_keys |-> {uni}]
          [] r = issue2 -> Cmd("import-vp", <<"vp.json">>, "back.json")
          [] r = verify1 -> Verifying("back.json", {})]

Wrapping ==
    [r \in {keyS, keyS2, issue2} |->
        CASE r = keyS -> Cmd("export-vc", <<"disclosed.json">>, "vc.json") @@ [issuer_key |-> uni]
          [] r = keyS2 -> Cmd("export-vc", <<"disclosed.json">>, "vc.json") @@ [issuer_key |-> acme]
          [] r = issue2 -> Cmd("import-vc", <<"vc.json">>, "disclosed.json")]

MCScripts == {Overwriting, Exchanging, Wrapping}
===============================================================================
