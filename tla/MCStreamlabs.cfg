CONSTANTS
    tiktok = tiktok
    rival = rival
    Endpoints <- MCEndpoints
    MaxStarts <- MCMaxStarts
    MaxRuns = 2
SPECIFICATION Spec
INVARIANTS EndedOnce AirOwnsSession NoSessionForgotten
PROPERTIES FetchEnds
