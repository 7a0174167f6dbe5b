----------------------------- MODULE MCPrivacy -----------------------------
(* PrivacyProxy for TLC: two requests, one conversation; persons rahul (also   *)
(* as rahul rao), bob and eve, the organization acme corp (AC), numbers in     *)
(* base 2 so that token 1 begins token 2.  The vaults as a library are checked *)
(* in behaviours of their own, on three spellings of two names.                *)
EXTENDS PrivacyProxy, VaultStores

VARIABLE subject    \* which of the systems this behaviour is of

P(words, category, confidence, layer, toggle) ==
    [words |-> words, category |-> category, confidence |-> confidence, layer |-> layer, toggle |-> toggle]
MCPhrases ==
    {P(<<"rahul">>, "person", 80, 3, "ner"), P(<<"rahul", "rao">>, "person", 80, 4, "ner"), P(<<"rao">>, "person", 90, 5, "custom"),
     P(<<"bob">>, "person", 80, 6, "ner"), P(<<"eve">>, "person", 80, 7, "ner"), P(<<"acme", "corp">>, "org", 80, 8, "ner")}
MCPrefix == [person |-> <<"P", "E">>, org |-> <<"O">>, forced |-> <<"F">>]
MCUpper == {"P", "E", "O", "F", "AC"}
MCPronouns == {"he"}
MCArticles == [thecompany |-> "org"]
MCKeywords == {"approved", "policy"}
MCInitials == (<<"acme", "corp">> :> "AC")
MCFirstName == (<<"rahul">> :> "rahul") @@ (<<"rahul", "rao">> :> "rahul") @@ (<<"bob">> :> "bob")
MCForced == <<<<"zen">>>>
MCExtras == {<<"eve", "P", "E", "_", "1", "0">>}
MCProfiles == [legal |-> {"ner"}]
MCOriginals == (<<"rahul">> :> "person") @@ (<<"rahool">> :> "person") @@ (<<"bob">> :> "person")
MCStored == {<<"rahul">>, <<"bob">>}
MCAlike == [x \in (DOMAIN MCOriginals) \X (DOMAIN MCOriginals) |-> IF x \in {<<<<"rahul">>, <<"rahool">>>>, <<<<"rahool">>, <<"rahul">>>>} THEN 93 ELSE 40]
MCAliases == <<<<<<"bob">>, <<"rahul">>>>, <<<<"rahool">>>>>>

M(text) == [form |-> "text", text |-> text]
B(text) == [form |-> "blocks", text |-> text]
Chat(stream, session, body) == [kind |-> "chat", stream |-> stream, session |-> session, body |-> body]
Other(kind, stream, body) == [kind |-> kind, stream |-> stream, session |-> NoSession, body |-> body]
Configure(profile, enable, disable) == [kind |-> "configure", profile |-> profile, enable |-> enable, disable |-> disable, body |-> <<>>]

MA == M(<<"rahul", "w">>)
MB == M(<<"he", "w", "bob">>)
MD == M(<<"acme", "corp", "approved", "policy">>)
ME == M(<<"thecompany", "AC", "w", "rahul", "'s">>)
MF == M(<<"zen", "w", "rahul", "rao", "zen">>)

MCAsks ==
    [r \in 1..2 |->
        IF r = 1
        THEN [proxy |-> {Chat(FALSE, "s", <<MA, MB>>), Chat(FALSE, "s", <<MD, ME>>)},
              server |-> {Other("mask", FALSE, <<MF>>), Other("mask", FALSE, <<M(<<"w">>)>>), Configure("", {}, {"ner"})},
              interceptor |-> {Other("call", FALSE, <<MA, MF>>), Other("call", FALSE, <<M(<<"w">>)>>)}]
        ELSE [proxy |-> {Chat(TRUE, "s", <<MB>>), Chat(FALSE, "s", <<MB, MA>>), Other("anthropic", TRUE, <<B(<<"w">>), MF>>),
                         Other("anthropic", FALSE, <<M(<<"w">>), MD>>), Other("embed", FALSE, <<MD, MA>>)},
              server |-> {Other("restore", FALSE, <<M(<<"P", "E", "_", "1">>)>>), Configure("legal", {"custom"}, {}), Configure("other", {}, {})},
              interceptor |-> {Other("call", FALSE, <<MB>>)}]]

\* The vaults as a library are checked without requests.
Idle == mode = "proxy" /\ \A r \in Requests : req[r] = Fresh(CHOOSE x \in MCAsks[r].proxy : TRUE)
MCInit == Init /\ StoresInit /\ subject \in {"requests", "library", "shared"} /\ (subject # "requests" => Idle)
MCNext ==
    /\ UNCHANGED subject
    /\ \/ subject = "requests" /\ Next /\ UNCHANGED storeVars
       \/ subject = "library" /\ LibraryNext /\ UNCHANGED vars
       \/ subject = "shared" /\ SharedNext /\ UNCHANGED vars
MCSpec == MCInit /\ [][MCNext]_<<vars, storeVars, subject>>
===============================================================================
