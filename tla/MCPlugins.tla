----------------------------- MODULE MCPlugins ------------------------------
\* The registry with two plugins that offer the same names, some of them those
\* of built-ins.
EXTENDS Plugins

MCOffered == {<<"command", 1>>, <<"command", 4>>, <<"resolver", 3>>, <<"extension", 1>>}
=============================================================================
