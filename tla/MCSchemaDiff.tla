---------------------------- MODULE MCSchemaDiff ----------------------------
(* Two tables; `t` in seven forms, which differ in columns, types and key,  *)
(* and four configurations.                                                 *)
EXTENDS SchemaDiff

F(cols, pk) == [cols |-> cols, pk |-> pk]

MCShapes == [t |-> {F([c |-> "int"], {}), F([c |-> "int"], {"c"}), F([c |-> "text"], {"c"}),
                    F([d |-> "int"], {"d"}), F([c |-> "int", d |-> "int"], {"c"}),
                    F([c |-> "int", d |-> "int"], {"c", "d"}), F([c |-> "text", d |-> "int"], {"d"})},
             u |-> {F([c |-> "int"], {"c"})}]

Default == [include |-> {{"t", "u"}}, exclude |-> {}, keys |-> [x \in {} |-> {}],
            ignore |-> [x \in {} |-> {}]]

MCConfigs == {
  Default,
  [Default EXCEPT !.exclude = {{"u"}}, !.keys = [t |-> {"d"}]],
  [Default EXCEPT !.include = {}, !.exclude = {{"t"}}, !.ignore = [x \in {"*"} |-> {"c"}]],
  [Default EXCEPT !.include = {{"t"}}, !.keys = [t |-> {}], !.ignore = [t |-> {"d"}]]}
=============================================================================
