---------------------------- MODULE MCDeviceTwin ----------------------------
EXTENDS DeviceTwin, TLC

CONSTANTS t1, t2, MaxExp

\* The bootstrap publishes the first tenant, then both.
MCMaps ==
  {NoMap, [t \in {t1} |-> "s1"], [t \in {t1, t2} |-> IF t = t1 THEN "s1" ELSE "s2"]}

Token(sub, tenant, exp, genuine) ==
  [sub |-> sub, tenant |-> tenant, exp |-> exp, genuine |-> genuine]

\* Each account holds genuine tokens of its own tenant, a1 one at two ages;
\* one token is not AXIAM's and claims the other tenant; one has no tenant.
Good == {Token("a1", t1, e, TRUE) : e \in 0..MaxExp} \cup {Token("a2", t2, MaxExp, TRUE)}
Bad  == {Token("a2", t1, MaxExp, FALSE), Token("a1", None, MaxExp, TRUE)}
MCTokens == Good \cup Bad

\* The one of a1's tokens that others present too.
Lent == Token("a1", t1, MaxExp, TRUE)

Connect(user, vhost, clientId, token) ==
  [user |-> user, vhost |-> vhost, clientId |-> clientId, token |-> token]

\* A connect with every token by the account it names, a1's token presented
\* by a2, and one form refused at each local hop.
MCConnectForms ==
  {Connect(tk.sub, "domo", tk.sub, tk) : tk \in MCTokens}
    \cup {Connect("a2", None, "a2", Lent)}
    \cup {Connect("a1", "other", "a1", Lent)}
    \cup {Connect("guest", "domo", "guest", Lent)}
    \cup {Connect("a2", "domo", c, Lent) : c \in {"a1", None}}

\* For liveness: each device presents its own lasting token.
MCLiveTokens == {tk \in Good : tk.exp = MaxExp}
MCLiveConnectForms == {Connect(tk.sub, "domo", tk.sub, tk) : tk \in MCLiveTokens}

Check(kind, user, what, vhost, clientId) ==
  [ask |-> [kind |-> kind, user |-> user, what |-> what],
   vhost |-> vhost, clientId |-> clientId]

\* One device's whole namespace and a topic in it, a topic of the other, and
\* one that names the other beneath the wrong tenant.
MCPattern == <<"domo", "s2", "a2", "#">>
MCTopic == <<"domo", "s2", "a2", "w">>
MCKeys == {MCPattern, MCTopic, <<"domo", "s1", "a1", "w">>, <<"domo", "s2", "a1", "w">>}

MCCheckForms ==
  {Check("topic", "a1", k, "domo", None) : k \in Keys \ {MCPattern}}
    \cup {Check("topic", "a2", k, "domo", None) : k \in {MCPattern, MCTopic}}
    \cup {Check("resource", "a2", <<"queue", a>>, "domo", "a2") : a \in Accounts}
    \cup {Check("vhost", u, << >>, "domo", "a1") : u \in Accounts}
    \cup {Check("vhost", "a1", << >>, "other", None)}

MCLiveCheckForms == {Check("vhost", "a1", << >>, "domo", None)}

\* The slots are alike, and what is checked under this symmetry is safety.
MCSymmetry == Permutations(Requests)
=============================================================================
