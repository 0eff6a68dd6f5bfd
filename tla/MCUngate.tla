------------------------------- MODULE MCUngate -------------------------------
EXTENDS Ungate

AllTemplates == {<<"fluxqueue">>, <<"first", "fluxqueue", "last">>}
=============================================================================
