----------------------------- MODULE MCPipeline -----------------------------
EXTENDS Pipeline
T(s) == Text(s)
Pair(k, v) == <<<<k>>, v>>
MCSources ==
    { List(<<T(<<"2">>), T(<<"1", "0">>), T(<<"1", "a">>)>>),
      List(<<Number(2), Number(10), Number(1)>>),
      List(<<T(<<"b">>), T(<<"a">>), T(<<"b">>), T(<<>>)>>),
      List(<<Map(<<Pair("a", Number(2))>>), Dict(<<Pair("a", Number(1)), Pair("b", Empty)>>)>>),
      List(<<T(<<"a", "b", "c">>), T(<<"a", "b">>), T(<<"a", "b", "c">>)>>),
      List(<<>>), List(<<List(<<List(<<Number(1)>>)>>), Bool(TRUE)>>),
      Map(<<Pair("a", Map(<<Pair("b", Number(1))>>)), Pair("b", List(<<Empty, Map(<<>>)>>))>>),
      Map(<<Pair("__type__", T(<<"a">>)), Pair("a", T(<<"\"", "\\", "nl">>))>>),
      Dict(<<Pair("a", Bool(FALSE)), Pair("b", Dict(<<>>))>>),
      T(<<"a", ",", "b", ",">>), T(<<" ", "a", "nl", "nl", "b", "nl">>), T(<<",", ",", ",">>), T(<<>>),
      T(<<"{", "\"", "a", "\"", ":", "1", ",", "\"", "a", "\"", ":", "0", "2", "}">>),
      T(<<"{", "\"", "a", "\"", ":", "[", "true", ",", "null", "]", "}">>),
      T(<<"Y", "Q", "=", "=", "Y", "Q", "=", "=">>),
      Matrix(<<<<"a">>, <<"b">>>>, << <<Number(1), T(<<"a">>)>>, <<Empty, T(<<",", "\"">>)>> >>),
      Matrix(<<<<"a", "\"">>, <<"\"", "\"">>>>, << <<T(<<"\"", "\"">>), T(<<"\"", "\"">>)>>,
                                                  <<T(<<"\"", "\"">>), T(<<"\"", "\"">>)>> >>),
      Matrix(<<<<"a">>>>, << <<T(<<>>)>>, <<T(<<"b">>)>>, <<Bool(TRUE)>> >>) }
MCTexts == { <<"a">>, <<"b">>, <<",">>, <<",", ",">>, <<"value">>, <<>> }
MCPaths == { <<"a">>, <<"b">>, <<"a", ".", "b">>, <<"b", "[", "1", "]", ".", "a">>, <<"b", ".", "0", ".", "b">>,
             <<"b", "[", "0", "]">>, <<"a", "b", "c">>, <<"a", "b">>, <<"c", "[", "0", "]">>, <<"a", "[", "]">>, <<"a", ".", "a", ".", "b", ".", "c">> }
MCItems == { Number(1), T(<<"a">>), Empty }
X == <<"name", "x">>
MCBlocks ==
    { [params |-> <<"x">>, body |-> << <<"result", <<"atom", <<X>>>>>> >>],
      [params |-> <<"x">>, body |-> << <<"local", "y", <<"equal", <<X, <<"literal", T(<<"a">>)>>>>>>>>,
                                      <<"result", <<"ternary", <<<<"name", "y">>, X, <<"literal", Number(0)>>>>>>>> >>],
      [params |-> <<"x">>, body |-> << <<"local", "x", <<"sum", <<X, <<"literal", Number(1)>>>>>>>> >>],
      [params |-> <<"x">>, body |-> << <<"result", <<"sum", <<<<"member", "x", <<"a">>>>, X>>>>>> >>],
      [params |-> <<"x", "y">>, body |-> << <<"result", <<"sum", <<X, <<"name", "y">>>>>>>> >>] }
=============================================================================
