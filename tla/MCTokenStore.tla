---------------------------- MODULE MCTokenStore ----------------------------
EXTENDS TokenStore, TLC

CONSTANTS cli, web, login

TwoClients == {cli, web}
OneLogin == {login}
=============================================================================
