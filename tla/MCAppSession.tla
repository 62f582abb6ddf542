---------------------------- MODULE MCAppSession ----------------------------
EXTENDS AppSession
\* Two requests that meet in the interceptor; calls for two logins, a logout and their refreshes.
=============================================================================
