---------------------------- MODULE MCTenantAddons ----------------------------
(* Two tenants, one of them with two of the addons; lists of two and of three *)
(* addons, which differ in a default and in a type.                           *)
EXTENDS TenantAddons, TLC

CONSTANTS t1, t2, colour, size, theme, clock, logo

Text(s) == Value("string", s)
Def(n, type, default) == [name |-> n, type |-> type, default |-> default]
Shows(text, action) == [text |-> text, action |-> action, shows |-> {colour, size}]

Theme(default) ==
  [id |-> theme, defs |-> <<Def(colour, "string", Text(default)), Def(size, "int", Nothing)>>,
   rules |-> <<Shows("frame", "inject"), Shows("menu", "inject")>>]
Clock(type) ==
  [id |-> clock, defs |-> <<Def(size, type, Nothing)>>, rules |-> <<Shows("clock", "inject")>>]
Logo(action) == [id |-> logo, defs |-> <<>>, rules |-> <<Shows("logo", action)>>]

MCLists ==
  {<<Theme("red"), Clock("int")>>,
   <<Theme("blue"), Clock("json"), Logo("inject")>>,
   <<Logo("replace"), Clock("bool"), Theme("red")>>}

MCGlobal == clock :> (size :> Value("number", 1))
MCTenants ==
  (t1 :> [enabled |-> {}, params |-> theme :> (size :> Value("number", 5))])
    @@ (t2 :> [enabled |-> {theme, clock},
               params |-> (theme :> (size :> Value("number", 7))) @@ (clock :> (size :> Text("x")))])
=============================================================================
