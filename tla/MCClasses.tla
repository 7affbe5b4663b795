------------------------------ MODULE MCClasses ------------------------------
EXTENDS Classes
Block(n, body) == <<"block", n, body>>
Class(name, bases, members) == [name |-> name, bases |-> bases, members |-> members]
Prop(p, v) == <<"property", p, <<"number", v>>>>
Method(m, b) == <<"method", m, b>>
MCDefinitions ==
    { Class("A", <<>>, <<Prop("x", 0), Prop("x", 1), Method("go", Block(0, <<<<"new", "B">>, <<"set", "y">>>>))>>),
      Class("A", <<"C">>, <<Prop("y", 1)>>),
      Class("A", <<"A">>, <<>>),
      Class("B", <<"A">>, <<>>),
      Class("B", <<>>, <<Prop("y", 2), Method("init", Block(0, <<<<"new", "C">>, <<"set", "y">>, <<"result">>>>))>>),
      Class("C", <<"A">>, <<Prop("x", 3), Method("init", Block(0, <<<<"set", "x">>>>))>>),
      Class("C", <<>>, <<Method("init", Block(1, <<<<"result">>>>))>>),
      Class("C", <<"B", "A">>, <<Prop("y", 3), <<"invalid">>>>),
      Class("D", <<"B", "C">>, <<Method("init", Block(0, <<<<"new", "B">>, <<"new", "C">>>>))>>) }
=============================================================================
